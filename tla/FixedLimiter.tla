---------------------------- MODULE FixedLimiter ----------------------------
(***************************************************************************)
(* The fixed-window rate limiters of core/rate_limit.py: RateLimiter, with *)
(* its table of counters in memory, and RedisRateLimiter, whose script     *)
(* increments a key that Redis expires.  Both make a check in one step:    *)
(* under the lock, or inside the script.  A refused check of RateLimiter   *)
(* changes nothing but the cleanup it may do on its way; a refused check   *)
(* of RedisRateLimiter still counts.                                       *)
(*                                                                         *)
(* remaining() and cleanup() of Redis change nothing and are left out.     *)
(***************************************************************************)
EXTENDS Integers, Sequences, FiniteSets

CONSTANTS
    Callers,       \* the keys of the calls: addresses or entity ids
    MaxRequests,   \* max_requests
    WindowTicks,   \* window_seconds
    MaxCounters,   \* _MAX_ENTRIES
    CleanupTicks,  \* the 60 seconds between two cleanups
    LastFixedTime, \* bound of the model: the clock stops here
    MaxCounted     \* bound of the model: the largest count of a Redis key

ASSUME FixedAssumption ==
    /\ MaxRequests \in Nat
    /\ WindowTicks \in Nat \ {0}
    /\ {MaxCounters, CleanupTicks, LastFixedTime, MaxCounted} \subseteq Nat

VARIABLES
    inRedis,     \* which of the two limiters runs
    expiring,    \* whether Redis takes window_seconds for an expiry
    counters,    \* requests counted for each caller, 0 when it has no entry
    windowStart, \* when the window of the entry began
    lastCleanup, \* _last_cleanup
    fixedTime,   \* the clock
    granted      \* history: the checks that passed, and the first one of their window

fixedVars == <<inRedis, expiring, counters, windowStart, lastCleanup, fixedTime, granted>>

FixedTypeOK ==
    /\ inRedis \in BOOLEAN
    /\ expiring \in BOOLEAN
    /\ counters \in [Callers -> Nat]
    /\ windowStart \in [Callers -> Nat]
    /\ lastCleanup \in Nat
    /\ fixedTime \in Nat
    /\ granted \in [Callers -> Seq([at : Nat, first : Nat])]
    /\ ~inRedis => \A c \in Callers : counters[c] <= MaxRequests

FixedInit ==
    /\ inRedis \in BOOLEAN
    /\ expiring \in BOOLEAN
    /\ ~inRedis => expiring
    /\ counters = [c \in Callers |-> 0]
    /\ windowStart = [c \in Callers |-> 0]
    /\ lastCleanup = 0
    /\ fixedTime = 0
    /\ granted = [c \in Callers |-> <<>>]

----------------------------------------------------------------------------
\* A window is over when it is as old as window_seconds; Redis expires the key then.
Young(c) == fixedTime - windowStart[c] < WindowTicks

\* The count of c with the request being checked.
Counted(c) == IF counters[c] > 0 /\ Young(c) THEN counters[c] + 1 ELSE 1

\* Bug: the cleanup clears the whole table.
BadCleaned == [c \in Callers |-> 0]

\* The counters that _cleanup_locked() leaves.
Cleaned == [c \in Callers |-> IF Young(c) THEN counters[c] ELSE 0]

CleanupDue == fixedTime - lastCleanup > CleanupTicks

\* The table once check() has made the cleanup it makes at most once a minute.
Table == IF CleanupDue THEN Cleaned ELSE counters

Counters == {c \in Callers : Table[c] > 0}

\* The first request of a window starts it.
Store(table, c) ==
    /\ counters' = [table EXCEPT ![c] = Counted(c)]
    /\ windowStart' = IF Counted(c) = 1 THEN [windowStart EXCEPT ![c] = fixedTime]
                                        ELSE windowStart

Grant(c) ==
    granted' = [granted EXCEPT ![c] =
        Append(@, [at |-> fixedTime, first |-> Len(@) + 2 - Counted(c)])]

----------------------------------------------------------------------------
(* RateLimiter *)

\* A new caller is refused when the table is full.
Admissible(c) == Table[c] > 0 \/ Cardinality(Counters) < MaxCounters

\* Bug: the request that goes beyond the limit is let through.
BadCheck(c) ==
    /\ ~inRedis
    /\ Admissible(c) /\ Counted(c) <= MaxRequests + 1
    /\ Store(Table, c)
    /\ Grant(c)
    /\ lastCleanup' = IF CleanupDue THEN fixedTime ELSE lastCleanup
    /\ UNCHANGED <<inRedis, expiring, fixedTime>>

Check(c) ==
    /\ ~inRedis
    /\ Admissible(c) /\ Counted(c) <= MaxRequests
    /\ Store(Table, c)
    /\ Grant(c)
    /\ lastCleanup' = IF CleanupDue THEN fixedTime ELSE lastCleanup
    /\ UNCHANGED <<inRedis, expiring, fixedTime>>

\* A refused check makes the cleanup too.
Refuse(c) ==
    /\ ~inRedis
    /\ ~(Admissible(c) /\ Counted(c) <= MaxRequests)
    /\ CleanupDue
    /\ counters' = Cleaned
    /\ lastCleanup' = fixedTime
    /\ UNCHANGED <<inRedis, expiring, windowStart, fixedTime, granted>>

Cleanup ==
    /\ ~inRedis
    /\ counters' = Cleaned
    /\ UNCHANGED <<inRedis, expiring, windowStart, lastCleanup, fixedTime, granted>>

----------------------------------------------------------------------------
(* RedisRateLimiter and AsyncRedisRateLimiter: the script INCRs, and sets  *)
(* the expiry with the first request.                                      *)

RedisCheck(c) ==
    /\ inRedis /\ expiring
    /\ MaxRequests > 0 /\ Counted(c) <= MaxCounted
    /\ Store(counters, c)
    /\ IF Counted(c) <= MaxRequests THEN Grant(c) ELSE UNCHANGED granted
    /\ UNCHANGED <<inRedis, expiring, lastCleanup, fixedTime>>

(* EXPIRE takes whole seconds only: a float, as the default 60.0 is one,   *)
(* it refuses after the INCR.  The first check raises, and leaves a key    *)
(* that never expires, with which the others count until reset().          *)
RedisCheckForGood(c) ==
    /\ inRedis /\ ~expiring
    /\ MaxRequests > 0 /\ counters[c] < MaxCounted
    /\ counters' = [counters EXCEPT ![c] = @ + 1]
    /\ granted' = IF counters[c] \in 1..(MaxRequests - 1)
                  THEN [granted EXCEPT ![c] = Append(@, [at |-> fixedTime, first |-> 1])]
                  ELSE granted
    /\ UNCHANGED <<inRedis, expiring, windowStart, lastCleanup, fixedTime>>

----------------------------------------------------------------------------
\* reset() forgets the caller, so the history starts again as well.
ResetCaller(c) ==
    /\ counters' = [counters EXCEPT ![c] = 0]
    /\ granted' = [granted EXCEPT ![c] = <<>>]
    /\ UNCHANGED <<inRedis, expiring, windowStart, lastCleanup, fixedTime>>

FixedTick ==
    /\ fixedTime < LastFixedTime
    /\ fixedTime' = fixedTime + 1
    /\ UNCHANGED <<inRedis, expiring, counters, windowStart, lastCleanup, granted>>

FixedNext ==
    \/ \E c \in Callers :
          Check(c) \/ Refuse(c) \/ RedisCheck(c) \/ RedisCheckForGood(c) \/ ResetCaller(c)
    \/ Cleanup
    \/ FixedTick

FixedSpec == FixedInit /\ [][FixedNext]_fixedVars

----------------------------------------------------------------------------
(* The burst at a boundary between two windows is never more than twice    *)
(* max_requests: 2 * max_requests + 1 checks that pass span at least one   *)
(* window, whatever cleanups, refused checks and full tables came between  *)
(* them (check() of RateLimiter and RedisRateLimiter).                     *)
BurstBounded ==
    \A c \in Callers : \A i \in 1..(Len(granted[c]) - 2 * MaxRequests) :
        granted[c][i + 2 * MaxRequests].at >= granted[c][i].at + WindowTicks
=============================================================================
