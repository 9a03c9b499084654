-------------------------- MODULE CachingKeyStore --------------------------
(***************************************************************************)
(* The two-tier card directory of storage/keystore.py: CachingKeyStore     *)
(* with a RedisKeyStore in front of a durable store, PostgresKeyStore.     *)
(* Each call of one of the two stores is a step of its own, so the calls   *)
(* of several clients interleave between them.  Calls of the cache may     *)
(* fail and the failure is suppressed; a commit of the backend may succeed *)
(* and its answer get lost.  A call that is refused (DuplicateCardError),  *)
(* or that fails before it changes anything, is a stuttering step.         *)
(*                                                                         *)
(* The statement of PostgresKeyStore.put(overwrite=True) is modelled       *)
(* without the "# nosec" remark at its beginning, which is no SQL.         *)
(*                                                                         *)
(* Cards are model values: two cards of one entity stand for the key it    *)
(* had and the key it rotated to.                                          *)
(***************************************************************************)
EXTENDS Integers

CONSTANTS
    Clients,     \* threads and processes that use the directory
    Entities,    \* entity ids
    Cards,       \* the cards an entity may have
    NoCard,      \* no card is stored
    CardTTL,     \* ttl of RedisKeyStore, in ticks; positive
    MaxDelay,    \* the longest a client takes from its backend call to its cache call
    LastCardTime \* bound of the model: the clock stops here

ASSUME CardsAssumption ==
    /\ Entities # {}
    /\ NoCard \notin Cards
    /\ CardTTL \in Nat \ {0}
    /\ MaxDelay \in Nat
    /\ LastCardTime \in Nat

VARIABLES
    table,     \* the rows of uxsp_cards
    cached,    \* the Redis keys, with the time each expires
    changedAt, \* history: when the row of an entity last changed
    call,      \* the call each client is in
    cardTime   \* the clock

cardVars == <<table, cached, changedAt, call, cardTime>>

\* The steps a call can be waiting at.  "since" is the time of its backend call.
CallSteps == {"idle", "get_backend", "fill", "put_cache", "delete_cache"}
Calls == [step : CallSteps, eid : Entities, card : Cards \cup {NoCard}, since : Nat]

CardsTypeOK ==
    /\ table \in [Entities -> Cards \cup {NoCard}]
    /\ cached \in [Entities -> [card : Cards \cup {NoCard}, exp : Nat]]
    /\ changedAt \in [Entities -> Nat]
    /\ call \in [Clients -> Calls]
    /\ cardTime \in Nat

CardsInit ==
    /\ table = [e \in Entities |-> NoCard]
    /\ cached = [e \in Entities |-> [card |-> NoCard, exp |-> 0]]
    /\ changedAt = [e \in Entities |-> 0]
    /\ call \in [Clients -> {[step |-> "idle", eid |-> e, card |-> NoCard, since |-> 0] :
                                e \in {CHOOSE e \in Entities : TRUE}}]
    /\ cardTime = 0

----------------------------------------------------------------------------
(* RedisKeyStore: SET with EX, GET and DEL of one key.                     *)

\* A key past its expiry is not there any more.
CacheHit(e) == cached[e].card # NoCard /\ cardTime < cached[e].exp

\* Bug: the cached card never expires in the times the model reaches.
BadCacheWith(e, c) == [cached EXCEPT ![e] = [card |-> c, exp |-> cardTime + CardTTL + LastCardTime]]

CacheWith(e, c) == [cached EXCEPT ![e] = [card |-> c, exp |-> cardTime + CardTTL]]

CacheWithout(e) == [cached EXCEPT ![e] = [card |-> NoCard, exp |-> 0]]

----------------------------------------------------------------------------
(* PostgresKeyStore: one transaction on one row.                           *)

Conflict(e, overwrite) == ~overwrite /\ table[e] # NoCard

WriteRow(e, c) ==
    /\ table' = [table EXCEPT ![e] = c]
    /\ changedAt' = [changedAt EXCEPT ![e] = cardTime]

Enter(t, step, e, c) ==
    call' = [call EXCEPT ![t] = [step |-> step, eid |-> e, card |-> c, since |-> cardTime]]

Return(t) == call' = [call EXCEPT ![t].step = "idle", ![t].card = NoCard]

----------------------------------------------------------------------------
(* put(): the backend first, then the cache.                               *)

PutBackend(t, e, c, overwrite) ==
    /\ call[t].step = "idle"
    /\ ~Conflict(e, overwrite)
    /\ WriteRow(e, c)
    /\ \/ Enter(t, "put_cache", e, c)
       \/ UNCHANGED call        \* committed, but the answer was lost: put() raises
    /\ UNCHANGED <<cached, cardTime>>

PutCache(t) ==
    /\ call[t].step = "put_cache"
    /\ \/ cached' = CacheWith(call[t].eid, call[t].card)
       \/ UNCHANGED cached      \* suppressed KeyStoreBackendError
    /\ Return(t)
    /\ UNCHANGED <<table, changedAt, cardTime>>

----------------------------------------------------------------------------
(* get(): the cache, on a miss or an error the backend, then the back-fill. *)
(* A hit changes nothing and is a stuttering step; an error of the cache   *)
(* goes on to the backend whatever the cache holds.                        *)

GetCache(t, e) ==
    /\ call[t].step = "idle"
    /\ Enter(t, "get_backend", e, NoCard)
    /\ UNCHANGED <<table, cached, changedAt, cardTime>>

GetBackend(t) ==
    /\ call[t].step = "get_backend"
    /\ IF table[call[t].eid] = NoCard
       THEN Return(t)
       ELSE \/ Enter(t, "fill", call[t].eid, table[call[t].eid])
            \/ Return(t)        \* the backend is unavailable: get() raises
    /\ UNCHANGED <<table, cached, changedAt, cardTime>>

FillCache(t) ==
    /\ call[t].step = "fill"
    /\ \/ cached' = CacheWith(call[t].eid, call[t].card)
       \/ UNCHANGED cached
    /\ Return(t)
    /\ UNCHANGED <<table, changedAt, cardTime>>

----------------------------------------------------------------------------
(* delete(): the backend first, then the cache, whether a row was there or *)
(* not.                                                                    *)

DeleteBackend(t, e) ==
    /\ call[t].step = "idle"
    /\ IF table[e] = NoCard THEN UNCHANGED <<table, changedAt>> ELSE WriteRow(e, NoCard)
    /\ \/ Enter(t, "delete_cache", e, NoCard)
       \/ UNCHANGED call        \* the answer of the backend was lost: delete() raises
    /\ UNCHANGED <<cached, cardTime>>

DeleteCache(t) ==
    /\ call[t].step = "delete_cache"
    /\ \/ cached' = CacheWithout(call[t].eid)
       \/ UNCHANGED cached
    /\ Return(t)
    /\ UNCHANGED <<table, changedAt, cardTime>>

----------------------------------------------------------------------------
(* The clock.  The stores' clients have timeouts: a call that has spoken to *)
(* the backend reaches the cache within MaxDelay.                          *)

InTime(t) == call[t].step \in {"fill", "put_cache", "delete_cache"} =>
                 cardTime < call[t].since + MaxDelay

CardTick ==
    /\ cardTime < LastCardTime
    /\ \A t \in Clients : InTime(t)
    /\ cardTime' = cardTime + 1
    /\ UNCHANGED <<table, cached, changedAt, call>>

CardsNext ==
    \/ \E t \in Clients :
          \/ \E e \in Entities :
                \/ \E c \in Cards, overwrite \in BOOLEAN : PutBackend(t, e, c, overwrite)
                \/ GetCache(t, e)
                \/ DeleteBackend(t, e)
          \/ PutCache(t)
          \/ GetBackend(t)
          \/ FillCache(t)
          \/ DeleteCache(t)
    \/ CardTick

CardsSpec == CardsInit /\ [][CardsNext]_cardVars

----------------------------------------------------------------------------
(* A card that was rotated or removed is served from the cache no longer   *)
(* than one back-fill and one TTL after the change, whatever the order in  *)
(* which writers and back-fills reach the cache and whichever cache errors *)
(* CachingKeyStore suppressed.                                             *)
StaleCardEnds ==
    \A e \in Entities :
        CacheHit(e) /\ cached[e].card # table[e] =>
            cardTime < changedAt[e] + MaxDelay + CardTTL
=============================================================================
