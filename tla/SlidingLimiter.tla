--------------------------- MODULE SlidingLimiter ---------------------------
(***************************************************************************)
(* The sliding-window rate limiters of core/rate_limit.py:                 *)
(* SlidingRateLimiter, with a deque of times per key under a lock, and     *)
(* RedisSlidingRateLimiter, whose script keeps a sorted set per key in     *)
(* Redis.  The script is given the time the caller read, so callers in     *)
(* different processes may disagree about it by up to ClockSpread; under   *)
(* the lock they do not, and there the deque is sorted.                    *)
(*                                                                         *)
(* A request in the log is the number it has among the granted ones, so    *)
(* requests of the same time stay distinct (the uuid of the script).       *)
(***************************************************************************)
EXTENDS Integers, Sequences, FiniteSets

CONSTANTS
    Askers,         \* the keys of the calls
    MaxInWindow,    \* max_requests
    SlideTicks,     \* window_seconds
    MaxLogs,        \* _MAX_ENTRIES
    LogCleanupTicks,\* the 60 seconds between two cleanups
    ClockSpread,    \* how much the times callers read may differ
    LastSlideTime   \* bound of the model: the clock stops here

ASSUME SlidingAssumption ==
    /\ MaxInWindow \in Nat
    /\ SlideTicks \in Nat \ {0}
    /\ {MaxLogs, LogCleanupTicks, ClockSpread, LastSlideTime} \subseteq Nat

VARIABLES
    shared,         \* whether the log is in Redis
    hasLog,         \* the keys with a deque, or a sorted set, of their own
    log,            \* the requests in it
    logCleanup,     \* _last_cleanup
    slideTime,      \* the clock
    passed          \* history: the granted requests, when and with which time read

slidingVars == <<shared, hasLog, log, logCleanup, slideTime, passed>>

SlidingTypeOK ==
    /\ shared \in BOOLEAN
    /\ hasLog \subseteq Askers
    /\ passed \in [Askers -> Seq([at : Nat, read : Int])]
    /\ log \in [Askers -> SUBSET Nat]
    /\ \A k \in Askers : log[k] \subseteq 1..Len(passed[k])
    /\ \A k \in Askers \ hasLog : log[k] = {}
    /\ logCleanup \in Nat
    /\ slideTime \in Nat

SlidingInit ==
    /\ shared \in BOOLEAN
    /\ hasLog = {}
    /\ log = [k \in Askers |-> {}]
    /\ logCleanup = 0
    /\ slideTime = 0
    /\ passed = [k \in Askers |-> <<>>]

----------------------------------------------------------------------------
\* Bug: a request stays in the log one tick less than the window.
BadRecent(k, cutoff) == {i \in log[k] : passed[k][i].read > cutoff + 1}

\* What popleft(), or ZREMRANGEBYSCORE, leaves.
Recent(k, cutoff) == {i \in log[k] : passed[k][i].read > cutoff}

\* The request is granted at the time t its caller read.
Pass(k, t) == passed' = [passed EXCEPT ![k] = Append(@, [at |-> slideTime, read |-> t])]

WithRequest(logs, k) == [logs EXCEPT ![k] = @ \cup {Len(passed[k]) + 1}]

----------------------------------------------------------------------------
(* SlidingRateLimiter *)

MemoryCutoff == slideTime - SlideTicks

\* What _cleanup_locked() leaves.
CleanedLog == [k \in Askers |-> Recent(k, MemoryCutoff)]
LogsLeft == {k \in hasLog : CleanedLog[k] # {}}

LogCleanupDue == slideTime - logCleanup > LogCleanupTicks
LogsNow == IF LogCleanupDue THEN LogsLeft ELSE hasLog
LogNow == IF LogCleanupDue THEN CleanedLog ELSE log

SlidingCleanup ==
    /\ ~shared
    /\ hasLog' = LogsLeft
    /\ log' = CleanedLog
    /\ UNCHANGED <<shared, logCleanup, slideTime, passed>>

\* check() cleans up when that is due, and refuses a new key of a full table.
SlidingCheck(k) ==
    /\ ~shared
    /\ logCleanup' = IF LogCleanupDue THEN slideTime ELSE logCleanup
    /\ IF MaxInWindow <= 0 \/ (k \notin LogsNow /\ Cardinality(LogsNow) >= MaxLogs)
       THEN /\ hasLog' = LogsNow
            /\ log' = LogNow
            /\ UNCHANGED passed
       ELSE /\ hasLog' = LogsNow \cup {k}
            /\ LET kept == [LogNow EXCEPT ![k] = Recent(k, MemoryCutoff)]
               IN  IF Cardinality(kept[k]) >= MaxInWindow
                   THEN log' = kept /\ UNCHANGED passed
                   ELSE log' = WithRequest(kept, k) /\ Pass(k, slideTime)
    /\ UNCHANGED <<shared, slideTime>>

----------------------------------------------------------------------------
(* RedisSlidingRateLimiter and AsyncRedisSlidingRateLimiter.  The caller   *)
(* read its clock some time before the script runs, and that clock may be  *)
(* behind the others.  The key expires window_seconds + 10 after its last  *)
(* request, when nothing in it counts any more for clocks that differ by   *)
(* less than those 10 seconds.                                             *)

RedisSlidingCheck(k, late) ==
    /\ shared
    /\ LET t == slideTime - late
           kept == [log EXCEPT ![k] = Recent(k, t - SlideTicks)]
       IN  IF Cardinality(kept[k]) >= MaxInWindow
           THEN log' = kept /\ UNCHANGED <<hasLog, passed>>
           ELSE /\ log' = WithRequest(kept, k)
                /\ hasLog' = hasLog \cup {k}
                /\ Pass(k, t)
    /\ UNCHANGED <<shared, logCleanup, slideTime>>

----------------------------------------------------------------------------
\* reset() forgets the key, so the history starts again as well.
SlidingReset(k) ==
    /\ hasLog' = hasLog \ {k}
    /\ log' = [log EXCEPT ![k] = {}]
    /\ passed' = [passed EXCEPT ![k] = <<>>]
    /\ UNCHANGED <<shared, logCleanup, slideTime>>

SlidingTick ==
    /\ slideTime < LastSlideTime
    /\ slideTime' = slideTime + 1
    /\ UNCHANGED <<shared, hasLog, log, logCleanup, passed>>

SlidingNext ==
    \/ \E k \in Askers :
          \/ SlidingCheck(k)
          \/ \E late \in 0..ClockSpread : RedisSlidingCheck(k, late)
          \/ SlidingReset(k)
    \/ SlidingCleanup
    \/ SlidingTick

SlidingSpec == SlidingInit /\ [][SlidingNext]_slidingVars

----------------------------------------------------------------------------
(* No burst at any boundary: max_requests + 1 granted requests of a key    *)
(* span at least window_seconds, less what the clocks of callers that      *)
(* share the log in Redis differ by (check() of SlidingRateLimiter and     *)
(* RedisSlidingRateLimiter; the latter's docstring leaves that out).       *)
WindowKept ==
    \A k \in Askers : \A i \in 1..(Len(passed[k]) - MaxInWindow) :
        passed[k][i + MaxInWindow].at >=
            passed[k][i].at + SlideTicks - IF shared THEN ClockSpread ELSE 0
=============================================================================
