----------------------------- MODULE NonceStore -----------------------------
(***************************************************************************)
(* What is inside the nonce stores that ReplayGuard and Handshake only see *)
(* from outside: MemoryNonceStore (core/nonce.py), SlidingWindowNonceStore,*)
(* RedisNonceStore, its asynchronous twin and PostgresNonceStore           *)
(* (storage/noncestore.py).  Each decides in one step whether a nonce is   *)
(* new: under its lock, in a script, or in one statement.  The sorted set  *)
(* and the table are given the time the caller read, and callers may       *)
(* differ by NonceSpread; the other two use one clock.                     *)
(***************************************************************************)
EXTENDS Integers, Sequences, FiniteSets

CONSTANTS
    MarkNonces,     \* the nonces to be marked
    TTLs,           \* the ttl_seconds of the calls, in ticks
    NonceCapacity,  \* MAX_NONCE_STORE_SIZE
    CallsPerCleanup,\* the 1000 calls of mark_used() between two cleanups
    KeyGrace,       \* what EXPIRE adds to the ttl: one hour
    NonceSpread,    \* how much the times callers read may differ
    LastNonceTime   \* bound of the model: the clock stops here

ASSUME NonceAssumption ==
    /\ TTLs \subseteq Nat \ {0}
    /\ {NonceCapacity, CallsPerCleanup, KeyGrace, NonceSpread, LastNonceTime} \subseteq Nat

VARIABLES
    nonceKind,  \* which store runs
    expires,    \* the nonces in the store, and when each of them expires
    calls,      \* _calls_since_cleanup
    setExpires, \* when Redis drops the sorted set
    nonceTime,  \* the clock
    nonceMarks       \* history: when and for how long mark_used() answered True

nonceVars == <<nonceKind, expires, calls, setExpires, nonceTime, nonceMarks>>

held == DOMAIN expires

NonceKinds == {"memory", "sortedSet", "redis", "postgres"}

NonceTypeOK ==
    /\ nonceKind \in NonceKinds
    /\ held \subseteq MarkNonces
    /\ expires \in [held -> Int]
    /\ calls \in 0..CallsPerCleanup
    /\ setExpires \in Nat
    /\ nonceTime \in Nat
    /\ nonceMarks \in [MarkNonces -> Seq([at : Nat, ttl : TTLs])]
    /\ nonceKind = "memory" => Cardinality(held) <= NonceCapacity

NonceInit ==
    /\ nonceKind \in NonceKinds
    /\ expires = [n \in {} |-> 0]
    /\ calls = 0
    /\ setExpires = 0
    /\ nonceTime = 0
    /\ nonceMarks = [n \in MarkNonces |-> <<>>]

----------------------------------------------------------------------------
\* The nonces that a removal of what expired by time t leaves.
Unexpired(t) == {n \in held : expires[n] > t}

Answer(n, ttl) ==
    nonceMarks' = [nonceMarks EXCEPT ![n] = Append(@, [at |-> nonceTime, ttl |-> ttl])]

\* The answer of a store across the network may get lost: mark_used() raises.
AnswerOrLost(n, ttl) == Answer(n, ttl) \/ UNCHANGED nonceMarks

Keep(left) == expires' = [n \in left |-> expires[n]]

\* The nonce joins those that were left; it expires ttl after the time t.
Insert(left, n, t, ttl) ==
    expires' = [m \in left \cup {n} |-> IF m = n THEN t + ttl ELSE expires[m]]

----------------------------------------------------------------------------
(* MemoryNonceStore *)

Swept == IF calls + 1 >= CallsPerCleanup THEN Unexpired(nonceTime) ELSE held

\* Bug: a full store drops a nonce to make room.
BadRoom == IF Cardinality(Swept) >= NonceCapacity
           THEN Swept \ {CHOOSE n \in Swept : \A m \in Swept : expires[n] <= expires[m]}
           ELSE Swept

\* A full store forgets what has expired.
Room == IF Cardinality(Swept) >= NonceCapacity THEN Unexpired(nonceTime) ELSE Swept

MemoryMark(n, ttl) ==
    /\ nonceKind = "memory"
    /\ calls' = IF calls + 1 >= CallsPerCleanup THEN 0 ELSE calls + 1
    /\ \/ /\ n \in Swept                              \* False
          /\ Keep(Swept)
          /\ UNCHANGED nonceMarks
       \/ /\ n \notin Swept
          /\ Cardinality(Room) >= NonceCapacity       \* UXSPStoreError
          /\ Keep(Room)
          /\ UNCHANGED nonceMarks
       \/ /\ n \notin Swept
          /\ Cardinality(Room) < NonceCapacity
          /\ Insert(Room, n, nonceTime, ttl)
          /\ Answer(n, ttl)
    /\ UNCHANGED <<nonceKind, setExpires, nonceTime>>

\* is_seen() removes the nonce when it has expired.
MemorySeen(n) ==
    /\ nonceKind = "memory"
    /\ n \in held /\ nonceTime >= expires[n]
    /\ Keep(held \ {n})
    /\ UNCHANGED <<nonceKind, calls, setExpires, nonceTime, nonceMarks>>

----------------------------------------------------------------------------
(* SlidingWindowNonceStore: prune, then ZADD NX, by the time the caller    *)
(* read; EXPIRE of the whole set with the ttl of the last nonce.           *)

SetLeft(t) == IF setExpires <= nonceTime THEN {} ELSE Unexpired(t)

SetMark(n, ttl, late) ==
    /\ nonceKind = "sortedSet"
    /\ LET t == nonceTime - late
       IN  IF n \in SetLeft(t)
           THEN Keep(SetLeft(t)) /\ UNCHANGED <<setExpires, nonceMarks>>
           ELSE /\ Insert(SetLeft(t), n, t, ttl)
                /\ setExpires' = nonceTime + ttl + KeyGrace
                /\ AnswerOrLost(n, ttl)
    /\ UNCHANGED <<nonceKind, calls, nonceTime>>

----------------------------------------------------------------------------
(* RedisNonceStore and AsyncRedisNonceStore: SET NX EX.                    *)

RedisMark(n, ttl) ==
    /\ nonceKind = "redis"
    /\ n \notin Unexpired(nonceTime)
    /\ Insert(held, n, nonceTime, ttl)
    /\ AnswerOrLost(n, ttl)
    /\ UNCHANGED <<nonceKind, calls, setExpires, nonceTime>>

----------------------------------------------------------------------------
(* PostgresNonceStore: INSERT ON CONFLICT DO NOTHING.  An expired row      *)
(* refuses the nonce until cleanup() deletes it.                           *)

PostgresMark(n, ttl, late) ==
    /\ nonceKind = "postgres"
    /\ n \notin held
    /\ Insert(held, n, nonceTime - late, ttl)
    /\ AnswerOrLost(n, ttl)
    /\ UNCHANGED <<nonceKind, calls, setExpires, nonceTime>>

----------------------------------------------------------------------------
\* Bug: cleanup() also removes what expires with the next tick.
BadRemoved(t) ==
    IF nonceKind = "redis" THEN {} ELSE {n \in held : expires[n] <= t + 1}

\* cleanup() of the stores; that of Redis keys does nothing.  The table keeps
\* a row in the very moment it expires.
Removed(t) ==
    CASE nonceKind = "postgres" -> {n \in held : expires[n] < t}
      [] nonceKind = "redis"    -> {}
      [] OTHER                  -> held \ Unexpired(t)

NonceCleanup(late) ==
    /\ late = 0 \/ nonceKind \in {"sortedSet", "postgres"}
    /\ Keep(held \ Removed(nonceTime - late))
    /\ UNCHANGED <<nonceKind, calls, setExpires, nonceTime, nonceMarks>>

NonceTick ==
    /\ nonceTime < LastNonceTime
    /\ nonceTime' = nonceTime + 1
    /\ UNCHANGED <<nonceKind, expires, calls, setExpires, nonceMarks>>

NonceNext ==
    \/ \E n \in MarkNonces :
          \/ \E ttl \in TTLs :
                \/ MemoryMark(n, ttl)
                \/ RedisMark(n, ttl)
                \/ \E late \in 0..NonceSpread :
                       SetMark(n, ttl, late) \/ PostgresMark(n, ttl, late)
          \/ MemorySeen(n)
    \/ \E late \in 0..NonceSpread : NonceCleanup(late)
    \/ NonceTick

NonceSpec == NonceInit /\ [][NonceNext]_nonceVars

----------------------------------------------------------------------------
\* How much the times may differ by which a nonce is kept.
TimeSpread == IF nonceKind \in {"sortedSet", "postgres"} THEN NonceSpread ELSE 0

\* When a nonce may be new again to the store that made the mark.
MayReturn(mark, t) ==
    \/ t >= mark.at + mark.ttl - TimeSpread
    \/ nonceKind = "sortedSet" /\ \E ttl \in TTLs : t >= mark.at + ttl + KeyGrace

(* A nonce is accepted again only when its ttl is over, in a store that is *)
(* at its capacity, pruned in between, or asked by callers whose clocks    *)
(* differ.  Where it is lost sooner is part of the property: callers that  *)
(* share a table or a sorted set lose the difference of their clocks, and  *)
(* the sorted set goes, with all nonces, an hour after the ttl of a nonce  *)
(* that came later (mark_used() of the stores).                            *)
AcceptedOncePerTTL ==
    \A n \in MarkNonces : \A i \in 1..(Len(nonceMarks[n]) - 1) :
        MayReturn(nonceMarks[n][i], nonceMarks[n][i + 1].at)

----------------------------------------------------------------------------
\* A nonce is no longer refused on account of its mark.
Lapsed(n) ==
    \/ n \notin held
    \/ expires[n] <= nonceTime
    \/ nonceKind = "sortedSet" /\ setExpires <= nonceTime

Remaining == [n \in MarkNonces |-> IF Lapsed(n) THEN 0 ELSE expires[n] - nonceTime]

KeptYet == IF nonceKind = "sortedSet" /\ setExpires > nonceTime
        THEN setExpires - nonceTime ELSE 0

Register == INSTANCE NonceRegister WITH
    Nonces <- MarkNonces, Lifetimes <- TTLs, Grace <- KeyGrace,
    slack <- TimeSpread, drops <- nonceKind = "sortedSet", remaining <- Remaining,
    idle <- KeptYet, accepted <- [n \in MarkNonces |-> Len(nonceMarks[n])]

(* Every kind of store is one and the same register of nonces to those who *)
(* call mark_used(): whatever it cleans up, prunes, replaces or refuses    *)
(* because it is full, and whichever answers get lost, what is left of a   *)
(* mark only goes by with time.  The kinds differ in the terms: clocks     *)
(* matter to the sorted set and the table, the grace to the sorted set.    *)
ImplementsRegister == Register!Spec
=============================================================================
