--------------------------- MODULE LimiterProofs ----------------------------
(***************************************************************************)
(* Type correctness of the two rate limiters and the bound each one keeps, *)
(* for any number of keys, any max_requests and window_seconds, and        *)
(* callers whose clocks differ by any ClockSpread.                         *)
(***************************************************************************)
EXTENDS FixedLimiter, SlidingLimiter, FiniteSetTheorems, SequenceTheorems, TLAPS

-----------------------------------------------------------------------------
(* The sliding window                                                      *)
(*                                                                         *)
(* WindowKept looks at granted requests only; what makes it inductive is   *)
(* that a granted request which is no longer in the log is older than the  *)
(* window (Forgotten below), whoever removed it. A request is granted when *)
(* the log is not full, so one of the last max_requests is missing.        *)

USE SlidingAssumption

Spread == IF shared THEN ClockSpread ELSE 0
Requests(k) == 1..Len(passed[k])

\* The types of what concerns one key.
KeyTyped(k) ==
    /\ passed[k] \in Seq([at : Nat, read : Int])
    /\ log[k] \subseteq Requests(k)
    /\ k \notin hasLog => log[k] = {}

\* A caller reads a time that is at most Spread behind; requests are in their order.
Ordered(k) ==
    /\ \A i \in Requests(k) :
          /\ passed[k][i].at <= slideTime
          /\ passed[k][i].at <= passed[k][i].read + Spread
    /\ \A i, j \in Requests(k) : i <= j => passed[k][i].at <= passed[k][j].at

\* A request that is no longer in the log is older than the window.
Forgotten(k) ==
    \A i \in Requests(k) \ log[k] : passed[k][i].at + SlideTicks <= slideTime + Spread

KeyKept(k) ==
    \A i \in 1..(Len(passed[k]) - MaxInWindow) :
        passed[k][i + MaxInWindow].at >= passed[k][i].at + SlideTicks - Spread

KeyInv(k) == KeyTyped(k) /\ Ordered(k) /\ Forgotten(k) /\ KeyKept(k)

SlidingIInv ==
    /\ shared \in BOOLEAN
    /\ hasLog \subseteq Askers
    /\ passed \in [Askers -> Seq([at : Nat, read : Int])]
    /\ log \in [Askers -> SUBSET Nat]
    /\ logCleanup \in Nat
    /\ slideTime \in Nat
    /\ \A k \in Askers : KeyInv(k)

\* A set of requests that the log may shrink to: what is left out is over.
Shrinks(k, rest) ==
    /\ rest \subseteq log[k]
    /\ \A i \in log[k] \ rest : passed[k][i].read + SlideTicks <= slideTime

\* A step that grants nothing to k, forgets no request that still counts, and keeps time.
OnlyShrinks(k) ==
    /\ Shrinks(k, log'[k])
    /\ k \notin hasLog' => log'[k] = {}
    /\ passed'[k] = passed[k]
    /\ shared' = shared
    /\ slideTime' \in Nat /\ slideTime' >= slideTime

\* A step that grants a request to k: the log shrank to kept, which had room.
Grants(k, kept, t) ==
    /\ Shrinks(k, kept)
    /\ ~(Cardinality(kept) >= MaxInWindow)
    /\ log'[k] = kept \cup {Len(passed[k]) + 1}
    /\ k \in hasLog'
    /\ Pass(k, t)
    /\ slideTime <= t + Spread
    /\ shared' = shared
    /\ slideTime' = slideTime

----------------------------------------------------------------------------
\* Every granted request has the two times.
LEMMA GrantedTyped ==
    ASSUME NEW s \in Seq([at : Nat, read : Int]), NEW i \in 1..Len(s)
    PROVE  s[i].at \in Nat /\ s[i].read \in Int
<1>1. s[i] \in [at : Nat, read : Int]
    BY ElementOfSeq
<1>2. QED
    BY <1>1

\* Recent() leaves out only what is over, if the caller's time is not ahead of the clock.
LEMMA RecentShrinks ==
    ASSUME SlidingIInv, NEW k \in Askers, NEW t \in Int, t <= slideTime
    PROVE  Shrinks(k, Recent(k, t - SlideTicks))
<1>1. \A i \in log[k] : passed[k][i].read \in Int
    BY GrantedTyped DEF SlidingIInv, KeyInv, KeyTyped, Requests
<1>2. slideTime \in Nat /\ SlideTicks \in Nat
    BY DEF SlidingIInv
<1>3. QED
    BY <1>1, <1>2 DEF Shrinks, Recent

\* A step that grants nothing to a key and only shrinks its log keeps its invariant.
LEMMA ShrinkInv ==
    ASSUME SlidingIInv, NEW k \in Askers, OnlyShrinks(k)
    PROVE  KeyInv(k)'
<1>0. /\ Shrinks(k, log'[k]) /\ (k \notin hasLog' => log'[k] = {})
      /\ passed'[k] = passed[k] /\ shared' = shared
      /\ slideTime' \in Nat /\ slideTime' >= slideTime
    BY DEF OnlyShrinks
<1>1. /\ KeyTyped(k) /\ Ordered(k) /\ Forgotten(k) /\ KeyKept(k)
      /\ slideTime \in Nat /\ shared \in BOOLEAN
    BY DEF SlidingIInv, KeyInv
<1>2. Requests(k)' = Requests(k) /\ Spread' = Spread /\ Spread \in Nat
    BY <1>0, <1>1 DEF Requests, Spread
<1>3. \A i \in Requests(k) : passed[k][i].at \in Nat /\ passed[k][i].read \in Int
    BY <1>0, <1>1, GrantedTyped DEF KeyTyped, Requests
<1>4. KeyTyped(k)'
    BY <1>0, <1>1, <1>2 DEF KeyTyped, Shrinks
<1>5. Ordered(k)'
    BY <1>0, <1>1, <1>2, <1>3 DEF Ordered
<1>6. Forgotten(k)'
  <2> SUFFICES ASSUME NEW i \in Requests(k), i \notin log'[k]
               PROVE  passed[k][i].at + SlideTicks <= slideTime' + Spread
      BY <1>0, <1>2 DEF Forgotten
  <2>1. CASE i \notin log[k]
      BY <1>0, <1>1, <1>2, <1>3, <2>1 DEF Forgotten
  <2>2. CASE i \in log[k]
    <3>1. passed[k][i].read + SlideTicks <= slideTime
        BY <1>0, <2>2 DEF Shrinks
    <3>2. passed[k][i].at <= passed[k][i].read + Spread
        BY <1>0, <1>1 DEF Ordered
    <3>3. QED
        BY <1>0, <1>1, <1>2, <1>3, <3>1, <3>2
  <2>3. QED
      BY <2>1, <2>2
<1>7. KeyKept(k)'
    BY <1>0, <1>1, <1>2 DEF KeyKept
<1>8. QED
    BY <1>4, <1>5, <1>6, <1>7 DEF KeyInv

\* When the log has room, one of the last max_requests granted is not in it.
LEMMA OneIsMissing ==
    ASSUME NEW n \in Nat, NEW kept \in SUBSET (1..n), ~(Cardinality(kept) >= MaxInWindow),
           NEW i \in 1..n, i + MaxInWindow = n + 1
    PROVE  \E j \in i..n : j \notin kept
<1> SUFFICES ASSUME i..n \subseteq kept PROVE FALSE
    OBVIOUS
<1>1. IsFiniteSet(kept)
  <2>1. IsFiniteSet(1..n)
      BY FS_Interval
  <2>2. QED
      BY <2>1, FS_Subset
<1>2. IsFiniteSet(i..n) /\ Cardinality(i..n) = n - i + 1
  <2>1. i \in Int /\ n \in Int /\ ~(i > n)
      OBVIOUS
  <2>2. IsFiniteSet(i..n) /\ Cardinality(i..n) = IF i > n THEN 0 ELSE n - i + 1
      BY <2>1, FS_Interval
  <2>3. QED
      BY <2>1, <2>2
<1>3. Cardinality(i..n) <= Cardinality(kept)
    BY <1>1, FS_Subset
<1>4. Cardinality(kept) \in Nat
    BY <1>1, FS_CardinalityType
<1>5. QED
    BY <1>2, <1>3, <1>4

\* A request that is granted because the shrunken log has room keeps the window.
LEMMA GrantInv ==
    ASSUME SlidingIInv, NEW k \in Askers, NEW kept, NEW t \in Int, Grants(k, kept, t)
    PROVE  KeyInv(k)'
<1>1. /\ KeyTyped(k) /\ Ordered(k) /\ Forgotten(k) /\ KeyKept(k)
      /\ slideTime \in Nat /\ shared \in BOOLEAN
      /\ passed[k] \in Seq([at : Nat, read : Int])
    BY DEF SlidingIInv, KeyInv, KeyTyped
<1>m. Len(passed[k]) \in Nat
    BY <1>1
<1>p. PICK n \in Nat : n = Len(passed[k])
    BY <1>m
<1>n. n \in Nat /\ MaxInWindow \in Nat /\ SlideTicks \in Nat /\ slideTime \in Nat
    BY <1>1
<1>2. Spread' = Spread /\ Spread \in Nat /\ slideTime' = slideTime
    BY <1>1 DEF Spread, Grants
<1>3. \A i \in 1..n : passed[k][i].at \in Nat /\ passed[k][i].read \in Int
    BY <1>1, <1>p, GrantedTyped
<1>4. passed'[k] = Append(passed[k], [at |-> slideTime, read |-> t])
    BY DEF Grants, Pass, SlidingIInv
<1>5. /\ passed'[k] \in Seq([at : Nat, read : Int])
      /\ Len(passed'[k]) = n + 1
      /\ \A i \in 1..n : passed'[k][i] = passed[k][i]
      /\ passed'[k][n + 1] = [at |-> slideTime, read |-> t]
    BY <1>1, <1>4, <1>p
<1>6. kept \subseteq 1..n
    BY <1>1, <1>p DEF Grants, Shrinks, KeyTyped, Requests
<1>l. log'[k] = kept \cup {n + 1}
    BY <1>p DEF Grants
<1>r. slideTime <= t + Spread /\ k \in hasLog' /\ ~(Cardinality(kept) >= MaxInWindow)
    BY DEF Grants
<1>7. Requests(k) = 1..n /\ Requests(k)' = 1..(n + 1)
    BY <1>5, <1>p DEF Requests
<1>8. KeyTyped(k)'
  <2>1. log'[k] \subseteq 1..(n + 1)
      BY <1>n, <1>6, <1>l
  <2>2. QED
      BY <1>5, <1>7, <1>r, <2>1 DEF KeyTyped
<1>9. passed'[k][n + 1].at = slideTime /\ passed'[k][n + 1].read = t
    BY <1>5
<1>10. Ordered(k)'
  <2>1. \A i \in 1..n : /\ passed[k][i].at <= slideTime
                        /\ passed[k][i].at <= passed[k][i].read + Spread
      BY <1>1, <1>7 DEF Ordered
  <2>2. \A i \in 1..(n + 1) : /\ passed'[k][i].at <= slideTime
                              /\ passed'[k][i].at <= passed'[k][i].read + Spread
    <3> SUFFICES ASSUME NEW i \in 1..(n + 1)
                 PROVE  /\ passed'[k][i].at <= slideTime
                        /\ passed'[k][i].at <= passed'[k][i].read + Spread
        OBVIOUS
    <3>1. CASE i = n + 1
        BY <1>n, <1>9, <1>r, <3>1
    <3>2. CASE i # n + 1
      <4>1. i \in 1..n
          BY <1>n, <3>2
      <4>2. QED
          BY <1>5, <2>1, <4>1
    <3>3. QED
        BY <3>1, <3>2
  <2>3. \A i, j \in 1..n : i <= j => passed[k][i].at <= passed[k][j].at
      BY <1>1, <1>7 DEF Ordered
  <2>4. \A i, j \in 1..(n + 1) : i <= j => passed'[k][i].at <= passed'[k][j].at
    <3> SUFFICES ASSUME NEW i \in 1..(n + 1), NEW j \in 1..(n + 1), i <= j
                 PROVE  passed'[k][i].at <= passed'[k][j].at
        OBVIOUS
    <3>1. CASE j = n + 1
        BY <1>9, <2>2, <3>1
    <3>2. CASE j # n + 1
      <4>1. i \in 1..n /\ j \in 1..n
          BY <1>n, <3>2
      <4>2. QED
          BY <1>5, <2>3, <4>1
    <3>3. QED
        BY <3>1, <3>2
  <2>5. QED
      BY <1>2, <1>7, <2>2, <2>4 DEF Ordered
<1>11. \A i \in 1..n : i \notin kept => passed[k][i].at + SlideTicks <= slideTime + Spread
  <2> SUFFICES ASSUME NEW i \in 1..n, i \notin kept
               PROVE  passed[k][i].at + SlideTicks <= slideTime + Spread
      OBVIOUS
  <2>1. CASE i \notin log[k]
      BY <1>1, <1>7, <2>1 DEF Forgotten
  <2>2. CASE i \in log[k]
    <3>1. passed[k][i].read + SlideTicks <= slideTime
        BY <2>2 DEF Grants, Shrinks
    <3>2. passed[k][i].at <= passed[k][i].read + Spread
        BY <1>1, <1>7 DEF Ordered
    <3>3. passed[k][i].at \in Nat /\ passed[k][i].read \in Int
        BY <1>3
    <3>4. QED
        BY <1>n, <1>2, <3>1, <3>2, <3>3
  <2>3. QED
      BY <2>1, <2>2
<1>12. Forgotten(k)'
  <2> SUFFICES ASSUME NEW i \in 1..(n + 1), i \notin log'[k]
               PROVE  passed'[k][i].at + SlideTicks <= slideTime + Spread
      BY <1>2, <1>7 DEF Forgotten
  <2>1. i \in 1..n /\ i \notin kept
      BY <1>n, <1>l
  <2>2. QED
      BY <1>5, <1>11, <2>1
<1>13. KeyKept(k)'
  <2> SUFFICES ASSUME NEW i \in 1..(n + 1 - MaxInWindow)
               PROVE  passed'[k][i + MaxInWindow].at >= passed'[k][i].at + SlideTicks - Spread
      BY <1>2, <1>5 DEF KeyKept
  <2>1. CASE i + MaxInWindow # n + 1
    <3>1. i \in 1..(n - MaxInWindow) /\ i \in 1..n /\ i + MaxInWindow \in 1..n
        BY <1>n, <2>1
    <3>2. passed[k][i + MaxInWindow].at >= passed[k][i].at + SlideTicks - Spread
        BY <1>1, <1>p, <3>1 DEF KeyKept
    <3>3. QED
        BY <1>5, <3>1, <3>2
  <2>2. CASE i + MaxInWindow = n + 1
    <3>1. MaxInWindow # 0
      <4>1. Cardinality(kept) \in Nat
        <5>1. IsFiniteSet(1..n)
            BY <1>n, FS_Interval
        <5>2. QED
            BY <1>6, <5>1, FS_Subset, FS_CardinalityType
      <4>2. QED
          BY <1>r, <4>1
    <3>2. i \in 1..n
        BY <1>n, <2>2, <3>1
    <3>3. PICK j \in i..n : j \notin kept
        BY <1>n, <1>6, <1>r, <2>2, <3>2, OneIsMissing
    <3>4. j \in 1..n /\ i <= j
        BY <1>n, <3>2
    <3>5. passed[k][j].at + SlideTicks <= slideTime + Spread
        BY <1>11, <3>3, <3>4
    <3>6. passed[k][i].at <= passed[k][j].at
        BY <1>1, <1>7, <3>2, <3>4 DEF Ordered
    <3>7. passed'[k][i].at = passed[k][i].at
        BY <1>5, <3>2
    <3>8. passed[k][i].at \in Nat /\ passed[k][j].at \in Nat
        BY <1>3, <3>2, <3>4
    <3>9. passed'[k][i + MaxInWindow].at = slideTime
        BY <1>9, <2>2
    <3>10. QED
        BY <1>n, <1>2, <3>5, <3>6, <3>7, <3>8, <3>9
  <2>3. QED
      BY <2>1, <2>2
<1>14. QED
    BY <1>8, <1>10, <1>12, <1>13 DEF KeyInv

----------------------------------------------------------------------------
\* What _cleanup_locked() leaves of a log, and of the table of logs.
LEMMA CleanedShrinks ==
    ASSUME SlidingIInv
    PROVE  /\ \A k \in Askers : Shrinks(k, CleanedLog[k])
           /\ \A k \in Askers : Shrinks(k, LogNow[k])
           /\ LogsLeft \subseteq Askers /\ LogsNow \subseteq Askers
           /\ \A k \in Askers \ LogsLeft : CleanedLog[k] = {}
           /\ \A k \in Askers \ LogsNow : LogNow[k] = {}
<1>1. \A k \in Askers : Shrinks(k, CleanedLog[k])
    BY RecentShrinks DEF CleanedLog, MemoryCutoff, SlidingIInv
<1>2. \A k \in Askers : Shrinks(k, log[k])
    BY DEF Shrinks
<1>3. \A k \in Askers \ hasLog : log[k] = {}
    BY DEF SlidingIInv, KeyInv, KeyTyped
<1>4. \A k \in Askers \ LogsLeft : CleanedLog[k] = {}
    BY <1>1, <1>3 DEF LogsLeft, Shrinks
<1>5. QED
    BY <1>1, <1>2, <1>3, <1>4 DEF LogsLeft, LogsNow, LogNow, SlidingIInv

\* The empty log of a new limiter.
LEMMA SlidingInitInv == SlidingInit => SlidingIInv
BY DEF SlidingInit, SlidingIInv, KeyInv, KeyTyped, Ordered, Forgotten, KeyKept, Requests

\* Every check, cleanup, reset and tick keeps the invariant.
LEMMA SlidingStepInv == SlidingIInv /\ [SlidingNext]_slidingVars => SlidingIInv'
<1> SUFFICES ASSUME SlidingIInv, [SlidingNext]_slidingVars PROVE SlidingIInv'
    OBVIOUS
<1>t. /\ shared \in BOOLEAN /\ hasLog \subseteq Askers
      /\ passed \in [Askers -> Seq([at : Nat, read : Int])]
      /\ log \in [Askers -> SUBSET Nat]
      /\ logCleanup \in Nat /\ slideTime \in Nat
    BY DEF SlidingIInv
<1>s. \A k \in Askers : log[k] \subseteq Requests(k) /\ passed[k] \in Seq([at : Nat, read : Int])
    BY DEF SlidingIInv, KeyInv, KeyTyped
<1>1. ASSUME NEW k \in Askers, SlidingCheck(k)
      PROVE  SlidingIInv'
  <2> DEFINE kept == [LogNow EXCEPT ![k] = Recent(k, MemoryCutoff)]
  <2>1. /\ ~shared /\ shared' = shared /\ slideTime' = slideTime /\ logCleanup' \in Nat
      BY <1>1, <1>t DEF SlidingCheck
  <2>2. LogNow \in [Askers -> SUBSET Nat]
      BY <1>t DEF LogNow, CleanedLog, Recent
  <2>3. Recent(k, MemoryCutoff) \in SUBSET Nat
      BY <1>t DEF Recent
  <2>4. /\ kept \in [Askers -> SUBSET Nat] /\ kept[k] = Recent(k, MemoryCutoff)
        /\ \A d \in Askers \ {k} : kept[d] = LogNow[d]
      BY <2>2, <2>3
  <2> HIDE DEF kept
  <2>5. \A d \in Askers : Shrinks(d, kept[d])
    <3>1. Shrinks(k, kept[k])
        BY <1>t, <2>4, RecentShrinks DEF MemoryCutoff
    <3>2. QED
        BY <2>4, <3>1, CleanedShrinks
  <2>6. CASE hasLog' = LogsNow /\ log' = LogNow /\ UNCHANGED passed
    <3>1. \A d \in Askers : OnlyShrinks(d)
        BY <1>t, <2>1, <2>6, CleanedShrinks DEF OnlyShrinks
    <3>2. \A d \in Askers : KeyInv(d)'
        BY <3>1, ShrinkInv
    <3>3. QED
        BY <1>t, <2>1, <2>2, <2>6, <3>2, CleanedShrinks DEF SlidingIInv
  <2>7. CASE hasLog' = LogsNow \cup {k} /\ log' = kept /\ UNCHANGED passed
    <3>1. \A d \in Askers \ hasLog' : log'[d] = {}
        BY <2>4, <2>7, CleanedShrinks
    <3>2. \A d \in Askers : OnlyShrinks(d)
        BY <1>t, <2>1, <2>5, <2>7, <3>1 DEF OnlyShrinks
    <3>3. \A d \in Askers : KeyInv(d)'
        BY <3>2, ShrinkInv
    <3>4. QED
        BY <1>t, <2>1, <2>4, <2>7, <3>3, CleanedShrinks DEF SlidingIInv
  <2>8. CASE /\ hasLog' = LogsNow \cup {k} /\ log' = WithRequest(kept, k) /\ Pass(k, slideTime)
             /\ ~(Cardinality(kept[k]) >= MaxInWindow)
    <3>1. /\ log' \in [Askers -> SUBSET Nat]
          /\ log'[k] = kept[k] \cup {Len(passed[k]) + 1}
          /\ \A d \in Askers \ {k} : log'[d] = kept[d]
        BY <1>s, <2>4, <2>8 DEF WithRequest
    <3>2. /\ passed' \in [Askers -> Seq([at : Nat, read : Int])]
          /\ \A d \in Askers \ {k} : passed'[d] = passed[d]
        BY <1>t, <2>8 DEF Pass
    <3>3. KeyInv(k)'
      <4>1. slideTime <= slideTime + Spread
          BY <1>t, <2>1 DEF Spread
      <4>2. Grants(k, kept[k], slideTime)
          BY <1>t, <2>1, <2>5, <2>8, <3>1, <4>1 DEF Grants
      <4>3. QED
          BY <1>t, <4>2, GrantInv
    <3>4. ASSUME NEW d \in Askers \ {k}
          PROVE  KeyInv(d)'
      <4>1. d \notin hasLog' => log'[d] = {}
          BY <2>4, <2>8, <3>1, <3>4, CleanedShrinks
      <4>2. d \in Askers /\ Shrinks(d, log'[d]) /\ passed'[d] = passed[d]
          BY <2>5, <3>1, <3>2, <3>4
      <4>3. OnlyShrinks(d)
          BY <1>t, <2>1, <4>1, <4>2 DEF OnlyShrinks
      <4>4. QED
          BY <3>4, <4>3, ShrinkInv
    <3>5. QED
        BY <1>t, <2>1, <2>8, <3>1, <3>2, <3>3, <3>4, CleanedShrinks DEF SlidingIInv
  <2>9. QED
      BY <1>1, <2>6, <2>7, <2>8 DEF SlidingCheck, kept
<1>2. ASSUME NEW k \in Askers, NEW late \in 0..ClockSpread, RedisSlidingCheck(k, late)
      PROVE  SlidingIInv'
  <2> DEFINE t == slideTime - late
             kept == [log EXCEPT ![k] = Recent(k, t - SlideTicks)]
  <2>1. /\ shared /\ shared' = shared /\ slideTime' = slideTime /\ logCleanup' = logCleanup
        /\ t \in Int /\ t <= slideTime /\ slideTime <= t + Spread
      BY <1>2, <1>t DEF RedisSlidingCheck, Spread
  <2>2. Recent(k, t - SlideTicks) \in SUBSET Nat
      BY <1>t DEF Recent
  <2>3. /\ kept \in [Askers -> SUBSET Nat] /\ kept[k] = Recent(k, t - SlideTicks)
        /\ \A d \in Askers \ {k} : kept[d] = log[d]
      BY <1>t, <2>2
  <2>4. Shrinks(k, kept[k])
      BY <2>1, <2>3, RecentShrinks
  <2>5. \A d \in Askers : Shrinks(d, kept[d])
      BY <2>3, <2>4 DEF Shrinks
  <2>6. \A d \in Askers \ hasLog : kept[d] = {}
      BY <2>5 DEF SlidingIInv, KeyInv, KeyTyped, Shrinks
  <2>7. CASE log' = kept /\ UNCHANGED <<hasLog, passed>>
    <3>1. \A d \in Askers : OnlyShrinks(d)
        BY <1>t, <2>1, <2>5, <2>6, <2>7 DEF OnlyShrinks
    <3>2. \A d \in Askers : KeyInv(d)'
        BY <3>1, ShrinkInv
    <3>3. QED
        BY <1>t, <2>1, <2>3, <2>7, <3>2 DEF SlidingIInv
  <2>8. CASE /\ log' = WithRequest(kept, k) /\ hasLog' = hasLog \cup {k} /\ Pass(k, t)
             /\ ~(Cardinality(kept[k]) >= MaxInWindow)
    <3>1. /\ log' \in [Askers -> SUBSET Nat]
          /\ log'[k] = kept[k] \cup {Len(passed[k]) + 1}
          /\ \A d \in Askers \ {k} : log'[d] = kept[d]
        BY <1>s, <2>3, <2>8 DEF WithRequest
    <3>2. /\ passed' \in [Askers -> Seq([at : Nat, read : Int])]
          /\ \A d \in Askers \ {k} : passed'[d] = passed[d]
        BY <1>t, <2>1, <2>8 DEF Pass
    <3>3. KeyInv(k)'
      <4>1. Grants(k, kept[k], t)
          BY <2>1, <2>3, <2>4, <2>8, <3>1 DEF Grants
      <4>2. QED
          BY <2>1, <4>1, GrantInv
    <3>4. ASSUME NEW d \in Askers \ {k}
          PROVE  KeyInv(d)'
      <4>1. d \notin hasLog' => log'[d] = {}
          BY <2>6, <2>8, <3>1, <3>4
      <4>2. OnlyShrinks(d)
          BY <1>t, <2>1, <2>5, <3>1, <3>2, <3>4, <4>1 DEF OnlyShrinks
      <4>3. QED
          BY <3>4, <4>2, ShrinkInv
    <3>5. QED
        BY <1>t, <2>1, <2>8, <3>1, <3>2, <3>3, <3>4 DEF SlidingIInv
  <2>9. QED
      BY <1>2, <2>7, <2>8 DEF RedisSlidingCheck
<1>3. ASSUME NEW k \in Askers, SlidingReset(k)
      PROVE  SlidingIInv'
  <2>1. /\ shared' = shared /\ slideTime' = slideTime /\ logCleanup' = logCleanup
        /\ hasLog' = hasLog \ {k}
        /\ log' \in [Askers -> SUBSET Nat] /\ log'[k] = {}
        /\ passed' \in [Askers -> Seq([at : Nat, read : Int])] /\ passed'[k] = <<>>
        /\ \A d \in Askers \ {k} : log'[d] = log[d] /\ passed'[d] = passed[d]
      BY <1>t, <1>3 DEF SlidingReset
  <2>2. KeyInv(k)'
      BY <2>1 DEF KeyInv, KeyTyped, Ordered, Forgotten, KeyKept, Requests
  <2>3. ASSUME NEW d \in Askers \ {k}
        PROVE  KeyInv(d)'
    <3>1. Shrinks(d, log'[d])
        BY <2>1, <2>3 DEF Shrinks
    <3>2. d \notin hasLog' => log'[d] = {}
        BY <2>1, <2>3 DEF SlidingIInv, KeyInv, KeyTyped
    <3>3. OnlyShrinks(d)
        BY <1>t, <2>1, <2>3, <3>1, <3>2 DEF OnlyShrinks
    <3>4. QED
        BY <2>3, <3>3, ShrinkInv
  <2>4. QED
      BY <1>t, <2>1, <2>2, <2>3 DEF SlidingIInv
<1>4. CASE SlidingCleanup
  <2>1. /\ shared' = shared /\ slideTime' = slideTime /\ logCleanup' = logCleanup
        /\ passed' = passed /\ hasLog' = LogsLeft /\ log' = CleanedLog
      BY <1>4 DEF SlidingCleanup
  <2>2. \A k \in Askers : KeyInv(k)'
    <3>1. \A k \in Askers : OnlyShrinks(k)
        BY <1>t, <2>1, CleanedShrinks DEF OnlyShrinks
    <3>2. QED
        BY <3>1, ShrinkInv
  <2>3. CleanedLog \in [Askers -> SUBSET Nat]
      BY <1>t DEF CleanedLog, Recent
  <2>4. QED
      BY <1>t, <2>1, <2>2, <2>3, CleanedShrinks DEF SlidingIInv
<1>5. CASE SlidingTick \/ UNCHANGED slidingVars
  <2>1. /\ shared' = shared /\ slideTime' \in Nat /\ slideTime' >= slideTime
        /\ logCleanup' = logCleanup /\ passed' = passed /\ hasLog' = hasLog /\ log' = log
      BY <1>t, <1>5 DEF SlidingTick, slidingVars
  <2>2. \A k \in Askers : Shrinks(k, log'[k]) /\ (k \notin hasLog' => log'[k] = {})
      BY <2>1 DEF Shrinks, SlidingIInv, KeyInv, KeyTyped
  <2>3. \A k \in Askers : KeyInv(k)'
    <3>1. \A k \in Askers : OnlyShrinks(k)
        BY <2>1, <2>2 DEF OnlyShrinks
    <3>2. QED
        BY <3>1, ShrinkInv
  <2>4. QED
      BY <1>t, <2>1, <2>3 DEF SlidingIInv
<1>6. QED
    BY <1>1, <1>2, <1>3, <1>4, <1>5 DEF SlidingNext

\* The invariant holds in every reachable state.
LEMMA SlidingAlwaysInv == SlidingSpec => []SlidingIInv
BY SlidingInitInv, SlidingStepInv, PTL DEF SlidingSpec

\* The logs hold granted requests only, and the other variables keep their types.
THEOREM SlidingTyped == SlidingSpec => []SlidingTypeOK
<1>1. SlidingIInv => SlidingTypeOK
    BY DEF SlidingIInv, SlidingTypeOK, KeyInv, KeyTyped, Requests
<1>2. QED
    BY <1>1, SlidingAlwaysInv, PTL

\* max_requests + 1 granted requests of a key span window_seconds, less what the clocks of
\* callers differ by (check() of SlidingRateLimiter and RedisSlidingRateLimiter).
THEOREM SlidingKeepsWindow == SlidingSpec => []WindowKept
<1>1. SlidingIInv => WindowKept
    BY DEF SlidingIInv, KeyInv, KeyKept, WindowKept, Spread
<1>2. QED
    BY <1>1, SlidingAlwaysInv, PTL

HIDE SlidingAssumption

-----------------------------------------------------------------------------
(* The fixed windows                                                       *)
(*                                                                         *)
(* BurstBounded looks at the times of grants only; what makes it inductive *)
(* is that every grant belongs to a window, which was opened when the      *)
(* window before it was over and takes at most max_requests grants.        *)

USE FixedAssumption

FixedGrants == [at : Nat, first : Nat]

\* Grants are in the order of time, and each belongs to a window of at most
\* max_requests grants that was opened by an earlier one or by itself.
InWindows(g, time) ==
    /\ \A i \in 1..Len(g) :
          g[i].at <= time /\ g[i].first \in 1..i /\ i - g[i].first < MaxRequests
    /\ \A i, j \in 1..Len(g) : i <= j => g[i].at <= g[j].at

\* The window opened by the grant f did so when the one before it was over.
OpenedLate(g, f) == f > 1 => g[f].at >= g[g[f - 1].first].at + WindowTicks

WindowsApart(g) == \A i \in 1..Len(g) : OpenedLate(g, g[i].first)

\* The grants of the window that is open: a Redis key counts beyond them.
Lasting(count) == IF count < MaxRequests THEN count ELSE MaxRequests

\* What the counter says of the last window; it forgets one when it is over.
CounterKnows(g, count, start, time) ==
    LET n == Len(g)
    IN  /\ count > 0 => n > 0 /\ g[n].first = n + 1 - Lasting(count) /\ g[g[n].first].at = start
        /\ count = 0 /\ n > 0 => g[g[n].first].at + WindowTicks <= time

WindowInv(g, count, start, time) ==
    /\ g \in Seq(FixedGrants)
    /\ {count, start, time} \subseteq Nat
    /\ InWindows(g, time)
    /\ WindowsApart(g)
    /\ CounterKnows(g, count, start, time)

FixedIInv ==
    /\ FixedTypeOK
    /\ \A c \in Callers : WindowInv(granted[c], counters[c], windowStart[c], fixedTime)

\* With a key that never expires, the first check raises and is not granted.
GrantedForGood(g, count) == Len(g) <= MaxRequests /\ Len(g) <= count

ForGoodInv ==
    /\ FixedTypeOK /\ inRedis
    /\ \A c \in Callers : GrantedForGood(granted[c], counters[c])

FixedInv == IF expiring THEN FixedIInv ELSE ForGoodInv

\* The entries of the history are typed, and so is the grant that opened a window.
LEMMA GrantsTyped ==
    ASSUME NEW g, NEW time \in Nat, g \in Seq(FixedGrants), InWindows(g, time)
    PROVE  /\ Len(g) \in Nat
           /\ \A i \in 1..Len(g) :
                 /\ g[i].at \in Nat /\ g[i].at <= time
                 /\ g[i].first \in 1..i /\ g[i].first \in 1..Len(g)
                 /\ i - g[i].first < MaxRequests
<1>1. Len(g) \in Nat
    OBVIOUS
<1>2. \A i \in 1..Len(g) : g[i] \in FixedGrants
    BY ElementOfSeq
<1> QED
    BY <1>1, <1>2 DEF InWindows, FixedGrants

\* Time passes, and a caller is left alone.
LEMMA TimeKeepsWindows ==
    ASSUME NEW g, NEW count, NEW start, NEW time, NEW later \in Nat,
           WindowInv(g, count, start, time), time <= later
    PROVE  WindowInv(g, count, start, later)
<1>1. /\ g \in Seq(FixedGrants) /\ {count, start, time} \subseteq Nat
      /\ InWindows(g, time) /\ CounterKnows(g, count, start, time)
    BY DEF WindowInv
<1>2. /\ Len(g) \in Nat
      /\ \A i \in 1..Len(g) : g[i].at \in Nat /\ g[i].at <= time /\ g[i].first \in 1..Len(g)
    BY <1>1, GrantsTyped
<1>3. InWindows(g, later)
    BY <1>1, <1>2 DEF InWindows
<1>4. CounterKnows(g, count, start, later)
    <2>1. ASSUME count = 0, Len(g) > 0 PROVE g[g[Len(g)].first].at + WindowTicks <= later
        <3>1. g[g[Len(g)].first].at + WindowTicks <= time
            BY <1>1, <2>1 DEF CounterKnows
        <3>2. g[g[Len(g)].first].at \in Nat
            BY <1>2, <2>1
        <3>3. time \in Nat
            BY <1>1
        <3> QED
            BY <3>1, <3>2, <3>3
    <2> QED
        BY <1>1, <2>1 DEF CounterKnows
<1> QED
    BY <1>1, <1>3, <1>4 DEF WindowInv

\* A counter whose window is over is forgotten.
LEMMA ForgettingKeepsWindows ==
    ASSUME NEW g, NEW count, NEW start, NEW time,
           WindowInv(g, count, start, time), ~(time - start < WindowTicks)
    PROVE  WindowInv(g, 0, start, time)
<1>1. /\ g \in Seq(FixedGrants) /\ {count, start, time} \subseteq Nat
      /\ InWindows(g, time) /\ CounterKnows(g, count, start, time)
    BY DEF WindowInv
<1>2. CounterKnows(g, 0, start, time)
    BY <1>1 DEF CounterKnows
<1> QED
    BY <1>1, <1>2 DEF WindowInv

\* A request beyond the limit is counted by Redis.
LEMMA CountingKeepsWindows ==
    ASSUME NEW g, NEW count, NEW start, NEW time,
           WindowInv(g, count, start, time), MaxRequests > 0, count >= MaxRequests
    PROVE  WindowInv(g, count + 1, start, time)
<1>1. /\ {count, start, time} \subseteq Nat /\ CounterKnows(g, count, start, time)
    BY DEF WindowInv
<1>2. Lasting(count + 1) = Lasting(count)
    BY <1>1 DEF Lasting
<1>3. CounterKnows(g, count + 1, start, time)
    BY <1>1, <1>2 DEF CounterKnows
<1> QED
    BY <1>1, <1>3 DEF WindowInv

\* A grant that opens a window, or joins the one that is open.
LEMMA GrantKeepsWindows ==
    ASSUME NEW g, NEW count, NEW start, NEW time, NEW counted \in 1..MaxRequests, NEW began,
           WindowInv(g, count, start, time),
           \/ counted = 1 /\ began = time /\ (count = 0 \/ ~(time - start < WindowTicks))
           \/ counted = count + 1 /\ counted > 1 /\ began = start
    PROVE  WindowInv(Append(g, [at |-> time, first |-> Len(g) + 2 - counted]),
                     counted, began, time)
<1>1. /\ g \in Seq(FixedGrants) /\ count \in Nat /\ start \in Nat /\ time \in Nat
      /\ InWindows(g, time) /\ WindowsApart(g) /\ CounterKnows(g, count, start, time)
    BY DEF WindowInv
<1>2. PICK n \in Nat : n = Len(g)
    BY <1>1
<1>3. PICK first \in Int : first = n + 2 - counted
    <2>1. n + 2 - counted \in Int
        OBVIOUS
    <2> QED
        BY <2>1, Zenon
<1>4. PICK h : h = Append(g, [at |-> time, first |-> Len(g) + 2 - counted])
    OBVIOUS
<1>5. \A i \in 1..n : /\ g[i].at \in Nat /\ g[i].at <= time
                      /\ g[i].first \in 1..i /\ g[i].first \in 1..n /\ i - g[i].first < MaxRequests
    BY <1>1, <1>2, GrantsTyped
\* The window of the new grant is the one before it, or it begins when that is over.
<1>6. \/ /\ first = n + 1 /\ began = time
         /\ n > 0 => g[g[n].first].at + WindowTicks <= time
      \/ n > 0 /\ first = g[n].first /\ g[first].at = began
    <2>1. CASE counted = 1 /\ began = time /\ (count = 0 \/ ~(time - start < WindowTicks))
        <3>1. n > 0 => g[g[n].first].at + WindowTicks <= time
            BY <1>1, <1>2, <1>5, <2>1 DEF CounterKnows
        <3> QED
            BY <1>2, <1>3, <2>1, <3>1
    <2>2. CASE counted = count + 1 /\ counted > 1 /\ began = start
        <3>1. count > 0 /\ Lasting(count) = count
            BY <1>1, <2>2 DEF Lasting
        <3> QED
            BY <1>1, <1>2, <1>3, <2>2, <3>1 DEF CounterKnows
    <2> QED
        BY <2>1, <2>2
<1>7. first \in 1..(n + 1) /\ n + 1 - first < MaxRequests
    BY <1>2, <1>3, <1>5, <1>6
<1>8. /\ Len(h) = n + 1 /\ h \in Seq(FixedGrants)
      /\ \A i \in 1..n : h[i] = g[i]
      /\ h[n + 1] = [at |-> time, first |-> first]
    <2>1. [at |-> time, first |-> first] \in FixedGrants
        BY <1>1, <1>7 DEF FixedGrants
    <2>2. h = Append(g, [at |-> time, first |-> first])
        BY <1>2, <1>3, <1>4
    <2> QED
        BY <1>1, <1>2, <2>1, <2>2, AppendProperties
<1>9. h[n + 1].at = time /\ h[n + 1].first = first
    BY <1>8
<1>10. InWindows(h, time)
    <2>1. \A i \in 1..(n + 1) :
              h[i].at <= time /\ h[i].first \in 1..i /\ i - h[i].first < MaxRequests
        <3> SUFFICES ASSUME NEW i \in 1..(n + 1)
                     PROVE  h[i].at <= time /\ h[i].first \in 1..i /\ i - h[i].first < MaxRequests
            OBVIOUS
        <3>1. CASE i = n + 1
            BY <1>1, <1>7, <1>9, <3>1
        <3>2. CASE i \in 1..n
            BY <1>5, <1>8, <3>2
        <3> QED
            BY <3>1, <3>2
    <2>2. \A i, j \in 1..(n + 1) : i <= j => h[i].at <= h[j].at
        <3> SUFFICES ASSUME NEW i \in 1..(n + 1), NEW j \in 1..(n + 1), i <= j
                     PROVE  h[i].at <= h[j].at
            OBVIOUS
        <3>1. CASE j = n + 1
            BY <1>9, <2>1, <3>1
        <3>2. CASE j # n + 1
            <4>1. i \in 1..n /\ j \in 1..n
                BY <3>2
            <4> QED
                BY <1>1, <1>2, <1>8, <4>1 DEF InWindows
        <3> QED
            BY <3>1, <3>2
    <2> QED
        BY <1>8, <2>1, <2>2 DEF InWindows
<1>11. WindowsApart(h)
    <2>1. ASSUME NEW k \in 1..n PROVE OpenedLate(h, g[k].first)
        <3>1. PICK f \in 1..n : f = g[k].first
            BY <1>5
        <3>2. OpenedLate(g, f)
            BY <1>1, <1>2, <3>1 DEF WindowsApart
        <3>3. CASE f > 1
            <4>1. f - 1 \in 1..n
                BY <3>3
            <4>2. g[f - 1].first \in 1..n
                BY <1>5, <4>1
            <4>3. h[f] = g[f] /\ h[f - 1] = g[f - 1] /\ h[g[f - 1].first] = g[g[f - 1].first]
                BY <1>8, <4>1, <4>2
            <4> QED
                BY <3>1, <3>2, <4>3 DEF OpenedLate
        <3> QED
            BY <3>1, <3>3 DEF OpenedLate
    <2>2. OpenedLate(h, first)
        <3>1. CASE n > 0 /\ first = g[n].first
            BY <2>1, <3>1
        <3>2. CASE first = n + 1 /\ (n > 0 => g[g[n].first].at + WindowTicks <= time)
            <4> SUFFICES ASSUME n > 0
                         PROVE  h[n + 1].at >= h[h[n].first].at + WindowTicks
                BY <3>2 DEF OpenedLate
            <4>1. n \in 1..n /\ g[n].first \in 1..n
                BY <1>5
            <4>2. h[n].first = g[n].first /\ h[g[n].first] = g[g[n].first]
                BY <1>8, <4>1
            <4>3. h[h[n].first].at = g[g[n].first].at /\ g[g[n].first].at \in Nat
                BY <1>5, <4>1, <4>2
            <4> QED
                BY <1>1, <1>9, <3>2, <4>3
        <3> QED
            BY <1>6, <3>1, <3>2
    <2> SUFFICES ASSUME NEW i \in 1..(n + 1) PROVE OpenedLate(h, h[i].first)
        BY <1>8 DEF WindowsApart
    <2>3. CASE i = n + 1
        BY <1>9, <2>2, <2>3
    <2>4. CASE i \in 1..n
        BY <1>8, <2>1, <2>4
    <2> QED
        BY <2>3, <2>4
<1>12. CounterKnows(h, counted, began, time)
    <2>1. Lasting(counted) = counted /\ counted > 0
        BY DEF Lasting
    <2>2. h[n + 1].first = (n + 1) + 1 - Lasting(counted)
        BY <1>3, <1>9, <2>1
    <2>3. h[first].at = began
        <3>1. CASE first = n + 1 /\ began = time
            BY <1>9, <3>1
        <3>2. CASE n > 0 /\ first = g[n].first /\ g[first].at = began
            <4>1. first \in 1..n
                BY <1>5, <3>2
            <4> QED
                BY <1>8, <3>2, <4>1
        <3> QED
            BY <1>6, <3>1, <3>2
    <2> QED
        BY <1>8, <1>9, <2>1, <2>2, <2>3 DEF CounterKnows
<1> QED
    BY <1>1, <1>4, <1>8, <1>10, <1>11, <1>12 DEF WindowInv

----------------------------------------------------------------------------
LEMMA FixedInitInv == FixedInit => FixedIInv
<1> SUFFICES ASSUME FixedInit PROVE FixedIInv
    OBVIOUS
<1>1. <<>> \in Seq(FixedGrants) /\ Len(<<>>) = 0
    OBVIOUS
<1>2. WindowInv(<<>>, 0, 0, 0)
    BY <1>1 DEF WindowInv, InWindows, WindowsApart, CounterKnows
<1> QED
    BY <1>1, <1>2 DEF FixedInit, FixedIInv, FixedTypeOK, FixedGrants

LEMMA ForGoodInitInv == FixedInit /\ ~expiring => ForGoodInv
<1>1. <<>> \in Seq([at : Nat, first : Nat]) /\ Len(<<>>) = 0
    OBVIOUS
<1> QED
    BY <1>1, FixedAssumption DEF FixedInit, ForGoodInv, FixedTypeOK, GrantedForGood

\* Counted() is the number that goes into the table.
LEMMA CountedTyped ==
    ASSUME FixedTypeOK, NEW c \in Callers
    PROVE  /\ Counted(c) \in Nat \ {0}
           /\ Counted(c) = 1 \/ (Counted(c) = counters[c] + 1 /\ counters[c] > 0)
           /\ Counted(c) = 1 => counters[c] = 0 \/ ~Young(c)
BY DEF FixedTypeOK, Counted

\* What Store() and Grant() do to the caller.
LEMMA FixedGrantInv ==
    ASSUME FixedIInv, NEW c \in Callers, Counted(c) <= MaxRequests,
           Grant(c), counters'[c] = Counted(c), UNCHANGED fixedTime,
           windowStart'[c] = IF Counted(c) = 1 THEN fixedTime ELSE windowStart[c]
    PROVE  WindowInv(granted[c], counters[c], windowStart[c], fixedTime)'
<1>1. FixedTypeOK /\ WindowInv(granted[c], counters[c], windowStart[c], fixedTime)
    BY DEF FixedIInv
<1>2. PICK counted : counted = Counted(c)
    OBVIOUS
<1>3. PICK began : began = windowStart'[c]
    OBVIOUS
<1>4. counted \in 1..MaxRequests
    BY <1>1, <1>2, CountedTyped
<1>5. \/ /\ counted = 1 /\ began = fixedTime
         /\ counters[c] = 0 \/ ~(fixedTime - windowStart[c] < WindowTicks)
      \/ counted = counters[c] + 1 /\ counted > 1 /\ began = windowStart[c]
    <2>1. CASE counted = 1
        BY <1>1, <1>2, <1>3, <2>1, CountedTyped DEF Young
    <2>2. CASE counted # 1
        <3>1. counted = counters[c] + 1 /\ began = windowStart[c]
            BY <1>1, <1>2, <1>3, <2>2, CountedTyped
        <3> QED
            BY <1>4, <2>2, <3>1
    <2> QED
        BY <2>1, <2>2
<1>6. WindowInv(Append(granted[c], [at |-> fixedTime, first |-> Len(granted[c]) + 2 - counted]),
                counted, began, fixedTime)
    BY <1>1, <1>4, <1>5, GrantKeepsWindows
<1>7. granted'[c] = Append(granted[c], [at |-> fixedTime, first |-> Len(granted[c]) + 2 - counted])
    BY <1>1, <1>2 DEF Grant, FixedTypeOK
<1> QED
    BY <1>2, <1>3, <1>6, <1>7

\* A caller that is left alone, whose counter is forgotten when its window is over.
LEMMA LeftInv ==
    ASSUME FixedIInv, NEW d \in Callers,
           fixedTime' \in Nat, fixedTime <= fixedTime',
           granted'[d] = granted[d], windowStart'[d] = windowStart[d],
           counters'[d] = counters[d] \/ (counters'[d] = 0 /\ ~Young(d))
    PROVE  WindowInv(granted[d], counters[d], windowStart[d], fixedTime)'
<1>1. WindowInv(granted[d], counters[d], windowStart[d], fixedTime)
    BY DEF FixedIInv
<1>2. WindowInv(granted[d], counters'[d], windowStart[d], fixedTime)
    <2>1. CASE counters'[d] = counters[d]
        BY <1>1, <2>1
    <2>2. CASE counters'[d] = 0 /\ ~Young(d)
        <3>1. ~(fixedTime - windowStart[d] < WindowTicks)
            BY <2>2 DEF Young
        <3>2. WindowInv(granted[d], 0, windowStart[d], fixedTime)
            BY <1>1, <3>1, ForgettingKeepsWindows
        <3> QED
            BY <2>2, <3>2
    <2> QED
        BY <2>1, <2>2
<1>3. WindowInv(granted[d], counters'[d], windowStart[d], fixedTime')
    BY <1>2, TimeKeepsWindows
<1> QED
    BY <1>3

\* The table, cleaned or not, holds what LeftInv allows.
LEMMA TableLeft ==
    ASSUME FixedTypeOK
    PROVE  /\ Table \in [Callers -> Nat] /\ Cleaned \in [Callers -> Nat]
           /\ \A d \in Callers :
                 /\ Table[d] = counters[d] \/ (Table[d] = 0 /\ ~Young(d))
                 /\ Cleaned[d] = counters[d] \/ (Cleaned[d] = 0 /\ ~Young(d))
BY DEF FixedTypeOK, Table, Cleaned

\* Store() into a table changes the entry of one caller.
LEMMA StoreOne ==
    ASSUME FixedTypeOK, NEW c \in Callers, NEW table \in [Callers -> Nat], Store(table, c)
    PROVE  /\ counters' \in [Callers -> Nat] /\ windowStart' \in [Callers -> Nat]
           /\ counters'[c] = Counted(c)
           /\ windowStart'[c] = IF Counted(c) = 1 THEN fixedTime ELSE windowStart[c]
           /\ \A d \in Callers \ {c} : counters'[d] = table[d] /\ windowStart'[d] = windowStart[d]
<1>1. Counted(c) \in Nat
    BY CountedTyped
<1> QED
    BY <1>1 DEF FixedTypeOK, Store

\* Types: a granted request joins the history of its caller.
LEMMA GrantTyped ==
    ASSUME FixedTypeOK, NEW c \in Callers, Grant(c), Counted(c) <= Len(granted[c]) + 1
    PROVE  /\ granted' \in [Callers -> Seq([at : Nat, first : Nat])]
           /\ \A d \in Callers \ {c} : granted'[d] = granted[d]
<1>1. granted[c] \in Seq([at : Nat, first : Nat]) /\ Counted(c) \in Nat /\ fixedTime \in Nat
    BY CountedTyped DEF FixedTypeOK
<1>2. Len(granted[c]) \in Nat
    BY <1>1
<1>3. Len(granted[c]) + 2 - Counted(c) \in Nat
    BY <1>1, <1>2
<1>4. PICK g : g = [at |-> fixedTime, first |-> Len(granted[c]) + 2 - Counted(c)]
    OBVIOUS
<1>5. g \in [at : Nat, first : Nat]
    BY <1>1, <1>3, <1>4
<1>6. Append(granted[c], g) \in Seq([at : Nat, first : Nat])
    BY <1>1, <1>5
<1>7. granted' = [granted EXCEPT ![c] = Append(granted[c], g)]
    BY <1>4 DEF Grant
<1> QED
    BY <1>6, <1>7 DEF FixedTypeOK

\* A counter that is not over the limit stands for that many grants.
LEMMA CountedIsPast ==
    ASSUME FixedIInv, NEW c \in Callers, Counted(c) <= MaxRequests
    PROVE  Counted(c) <= Len(granted[c]) + 1
<1>1. FixedTypeOK /\ WindowInv(granted[c], counters[c], windowStart[c], fixedTime)
    BY DEF FixedIInv
<1>2. CASE Counted(c) = 1
    BY <1>1, <1>2 DEF WindowInv
<1>3. CASE Counted(c) = counters[c] + 1 /\ counters[c] > 0
    <2>1. PICK g : g = granted[c]
        OBVIOUS
    <2>2. g \in Seq(FixedGrants) /\ InWindows(g, fixedTime) /\ fixedTime \in Nat
          /\ CounterKnows(g, counters[c], windowStart[c], fixedTime) /\ counters[c] \in Nat
        BY <1>1, <2>1 DEF WindowInv
    <2>3. /\ Len(g) \in Nat
          /\ \A i \in 1..Len(g) : g[i].first \in 1..i
        BY <2>2, GrantsTyped
    <2>4. Lasting(counters[c]) = counters[c]
        BY <1>3, <2>2 DEF Lasting
    <2>5. PICK n \in Nat : n = Len(g)
        BY <2>3
    <2>6. n \in 1..n /\ g[n].first = n + 1 - counters[c]
        BY <1>3, <2>2, <2>4, <2>5 DEF CounterKnows
    <2>7. g[n].first \in 1..n
        BY <2>3, <2>5, <2>6
    <2> QED
        BY <1>3, <2>1, <2>2, <2>5, <2>6, <2>7
<1> QED
    BY <1>1, <1>2, <1>3, CountedTyped

\* Counters that expire.
LEMMA FixedStepInv == expiring /\ FixedIInv /\ [FixedNext]_fixedVars => FixedIInv'
<1> SUFFICES ASSUME expiring, FixedIInv, [FixedNext]_fixedVars PROVE FixedIInv'
    OBVIOUS
<1>t. /\ FixedTypeOK
      /\ counters \in [Callers -> Nat] /\ windowStart \in [Callers -> Nat]
      /\ granted \in [Callers -> Seq([at : Nat, first : Nat])]
      /\ lastCleanup \in Nat /\ fixedTime \in Nat /\ inRedis \in BOOLEAN /\ expiring \in BOOLEAN
      /\ ~inRedis => \A c \in Callers : counters[c] <= MaxRequests
    BY DEF FixedIInv, FixedTypeOK
<1> DEFINE CallerOK(c) == WindowInv(granted[c], counters[c], windowStart[c], fixedTime)
<1>1. ASSUME NEW c \in Callers, Check(c) PROVE FixedIInv'
    <2>1. /\ ~inRedis /\ Counted(c) <= MaxRequests /\ Store(Table, c) /\ Grant(c)
          /\ UNCHANGED <<inRedis, expiring>> /\ fixedTime' = fixedTime /\ lastCleanup' \in {lastCleanup, fixedTime}
        BY <1>1 DEF Check
    <2>2. Table \in [Callers -> Nat]
          /\ \A d \in Callers : Table[d] = counters[d] \/ (Table[d] = 0 /\ ~Young(d))
        BY <1>t, TableLeft
    <2>3. /\ counters' \in [Callers -> Nat] /\ windowStart' \in [Callers -> Nat]
          /\ counters'[c] = Counted(c)
          /\ windowStart'[c] = IF Counted(c) = 1 THEN fixedTime ELSE windowStart[c]
          /\ \A d \in Callers \ {c} : counters'[d] = Table[d] /\ windowStart'[d] = windowStart[d]
        BY <1>t, <2>1, <2>2, StoreOne
    <2>4. /\ granted' \in [Callers -> Seq([at : Nat, first : Nat])]
          /\ \A d \in Callers \ {c} : granted'[d] = granted[d]
        BY <1>t, <2>1, GrantTyped, CountedIsPast
    <2>5. FixedTypeOK'
        <3>1. \A d \in Callers : counters'[d] <= MaxRequests
            <4> SUFFICES ASSUME NEW d \in Callers PROVE counters'[d] <= MaxRequests
                OBVIOUS
            <4>1. counters[d] <= MaxRequests
                BY <1>t, <2>1
            <4>2. CASE d = c
                BY <2>1, <2>3, <4>2
            <4>3. CASE d # c
                <5>1. counters'[d] = counters[d] \/ counters'[d] = 0
                    BY <2>2, <2>3, <4>3
                <5> QED
                    BY <4>1, <5>1
            <4> QED
                BY <4>2, <4>3
        <3> QED
            BY <1>t, <2>1, <2>3, <2>4, <3>1 DEF FixedTypeOK
    <2>6. CallerOK(c)'
        BY <2>1, <2>3, FixedGrantInv
    <2>7. ASSUME NEW d \in Callers \ {c} PROVE CallerOK(d)'
        BY <1>t, <2>1, <2>2, <2>3, <2>4, LeftInv
    <2> QED
        BY <2>5, <2>6, <2>7 DEF FixedIInv
<1>2. ASSUME counters' = Cleaned, lastCleanup' \in {lastCleanup, fixedTime},
             UNCHANGED <<inRedis, expiring, windowStart, fixedTime, granted>>
      PROVE  FixedIInv'
    <2>1. Cleaned \in [Callers -> Nat]
          /\ \A d \in Callers : Cleaned[d] = counters[d] \/ (Cleaned[d] = 0 /\ ~Young(d))
        BY <1>t, TableLeft
    <2>0. \A d \in Callers : counters'[d] = counters[d] \/ (counters'[d] = 0 /\ ~Young(d))
        <3>1. \A d \in Callers : counters'[d] = Cleaned[d]
            BY <1>2
        <3> QED
            BY <2>1, <3>1
    <2>2. FixedTypeOK'
        <3>1. \A d \in Callers : counters'[d] = counters[d] \/ counters'[d] = 0
            BY <2>0
        <3>2. \A d \in Callers : counters[d] <= MaxRequests => counters'[d] <= MaxRequests
            BY <3>1
        <3>3. ~inRedis' => \A d \in Callers : counters'[d] <= MaxRequests
            BY <1>t, <1>2, <3>2
        <3>4. /\ counters' \in [Callers -> Nat] /\ lastCleanup' \in Nat
              /\ UNCHANGED <<inRedis, expiring, windowStart, fixedTime, granted>>
            BY <1>t, <1>2, <2>1
        <3> QED
            BY <1>t, <3>3, <3>4 DEF FixedTypeOK
    <2>3. ASSUME NEW d \in Callers PROVE CallerOK(d)'
        <3>1. counters'[d] = counters[d] \/ (counters'[d] = 0 /\ ~Young(d))
            BY <2>0
        <3>2. /\ fixedTime' \in Nat /\ fixedTime <= fixedTime'
              /\ granted'[d] = granted[d] /\ windowStart'[d] = windowStart[d]
            BY <1>t, <1>2
        <3> QED
            BY <3>1, <3>2, LeftInv
    <2> QED
        BY <2>2, <2>3 DEF FixedIInv
<1>3. ASSUME NEW c \in Callers, Refuse(c) PROVE FixedIInv'
    BY <1>2, <1>3 DEF Refuse
<1>4. CASE Cleanup
    BY <1>2, <1>4 DEF Cleanup
<1>5. ASSUME NEW c \in Callers, RedisCheck(c) PROVE FixedIInv'
    <2>1. /\ inRedis /\ MaxRequests > 0 /\ Store(counters, c)
          /\ UNCHANGED <<inRedis, expiring>> /\ fixedTime' = fixedTime /\ lastCleanup' = lastCleanup
        BY <1>5 DEF RedisCheck
    <2>2. IF Counted(c) <= MaxRequests THEN Grant(c) ELSE UNCHANGED granted
        BY <1>5 DEF RedisCheck
    <2>3. /\ counters' \in [Callers -> Nat] /\ windowStart' \in [Callers -> Nat]
          /\ counters'[c] = Counted(c)
          /\ windowStart'[c] = IF Counted(c) = 1 THEN fixedTime ELSE windowStart[c]
          /\ \A d \in Callers \ {c} : counters'[d] = counters[d] /\ windowStart'[d] = windowStart[d]
        BY <1>t, <2>1, StoreOne
    <2>4. /\ granted' \in [Callers -> Seq([at : Nat, first : Nat])]
          /\ \A d \in Callers \ {c} : granted'[d] = granted[d]
        <3>1. CASE Counted(c) <= MaxRequests
            BY <1>t, <2>2, <3>1, GrantTyped, CountedIsPast
        <3>2. CASE ~(Counted(c) <= MaxRequests)
            BY <1>t, <2>2, <3>2
        <3> QED
            BY <3>1, <3>2
    <2>5. FixedTypeOK'
        BY <1>t, <2>1, <2>3, <2>4 DEF FixedTypeOK
    <2>6. CallerOK(c)'
        <3>1. CASE Counted(c) <= MaxRequests
            BY <2>1, <2>2, <2>3, <3>1, FixedGrantInv
        <3>2. CASE ~(Counted(c) <= MaxRequests)
            <4>1. Counted(c) = counters[c] + 1 /\ counters[c] >= MaxRequests
                BY <1>t, <2>1, <3>2, CountedTyped
            <4>2. windowStart'[c] = windowStart[c] /\ granted'[c] = granted[c]
                BY <1>t, <2>1, <2>2, <2>3, <3>2, <4>1
            <4>3. WindowInv(granted[c], counters[c], windowStart[c], fixedTime)
                BY DEF FixedIInv
            <4>4. WindowInv(granted[c], counters[c] + 1, windowStart[c], fixedTime)
                BY <2>1, <4>1, <4>3, CountingKeepsWindows
            <4> QED
                BY <2>1, <2>3, <4>1, <4>2, <4>4
        <3> QED
            BY <3>1, <3>2
    <2>7. ASSUME NEW d \in Callers \ {c} PROVE CallerOK(d)'
        BY <1>t, <2>1, <2>3, <2>4, LeftInv
    <2> QED
        BY <2>5, <2>6, <2>7 DEF FixedIInv
<1>6. ASSUME NEW c \in Callers, ResetCaller(c) PROVE FixedIInv'
    <2>1. /\ counters' = [counters EXCEPT ![c] = 0] /\ granted' = [granted EXCEPT ![c] = <<>>]
          /\ UNCHANGED <<inRedis, expiring, windowStart, lastCleanup, fixedTime>>
        BY <1>6 DEF ResetCaller
    <2>2. <<>> \in Seq([at : Nat, first : Nat]) /\ <<>> \in Seq(FixedGrants) /\ Len(<<>>) = 0
        OBVIOUS
    <2>3. FixedTypeOK'
        BY <1>t, <2>1, <2>2 DEF FixedTypeOK
    <2>4. CallerOK(c)'
        <3>1. WindowInv(<<>>, 0, windowStart[c], fixedTime)
            BY <1>t, <2>2 DEF WindowInv, InWindows, WindowsApart, CounterKnows
        <3>2. granted'[c] = <<>> /\ counters'[c] = 0
            BY <1>t, <2>1
        <3> QED
            BY <2>1, <3>1, <3>2
    <2>5. ASSUME NEW d \in Callers \ {c} PROVE CallerOK(d)'
        <3>1. counters'[d] = counters[d] /\ granted'[d] = granted[d]
            BY <1>t, <2>1
        <3> QED
            BY <1>t, <2>1, <3>1, LeftInv
    <2> QED
        BY <2>3, <2>4, <2>5 DEF FixedIInv
<1>7. ASSUME UNCHANGED <<inRedis, expiring, counters, windowStart, lastCleanup, granted>>,
             fixedTime' \in {fixedTime, fixedTime + 1}
      PROVE  FixedIInv'
    <2>1. fixedTime' \in Nat /\ fixedTime <= fixedTime'
        BY <1>t, <1>7
    <2>2. FixedTypeOK'
        BY <1>t, <1>7, <2>1 DEF FixedTypeOK
    <2>3. ASSUME NEW d \in Callers PROVE CallerOK(d)'
        BY <1>7, <2>1, LeftInv
    <2> QED
        BY <2>2, <2>3 DEF FixedIInv
<1>8. CASE FixedTick
    BY <1>7, <1>8 DEF FixedTick
<1>9. CASE UNCHANGED fixedVars
    BY <1>7, <1>9 DEF fixedVars
<1>10. \A c \in Callers : ~RedisCheckForGood(c)
    BY DEF RedisCheckForGood
<1> QED
    BY <1>1, <1>3, <1>4, <1>5, <1>6, <1>8, <1>9, <1>10 DEF FixedNext

\* Keys of Redis that never expire: no more than max_requests are granted with one.
LEMMA ForGoodStepInv == ~expiring /\ ForGoodInv /\ [FixedNext]_fixedVars => ForGoodInv'
<1> SUFFICES ASSUME ~expiring, ForGoodInv, [FixedNext]_fixedVars PROVE ForGoodInv'
    OBVIOUS
<1>t. /\ FixedTypeOK /\ inRedis
      /\ counters \in [Callers -> Nat] /\ fixedTime \in Nat /\ MaxRequests \in Nat
      /\ granted \in [Callers -> Seq([at : Nat, first : Nat])]
      /\ \A d \in Callers : GrantedForGood(granted[d], counters[d])
    BY FixedAssumption DEF ForGoodInv, FixedTypeOK
<1>1. ASSUME NEW c \in Callers, RedisCheckForGood(c) PROVE ForGoodInv'
    <2>1. /\ counters' = [counters EXCEPT ![c] = @ + 1]
          /\ UNCHANGED <<inRedis, expiring, windowStart, lastCleanup, fixedTime>>
        BY <1>1 DEF RedisCheckForGood
    <2>2. counters' \in [Callers -> Nat] /\ counters'[c] = counters[c] + 1
        BY <1>t, <2>1
    <2>3. CASE counters[c] \in 1..(MaxRequests - 1)
        <3> DEFINE new == Append(granted[c], [at |-> fixedTime, first |-> 1])
        <3>1. granted' = [granted EXCEPT ![c] = new]
            BY <1>1, <2>3 DEF RedisCheckForGood
        <3>2. granted[c] \in Seq([at : Nat, first : Nat])
              /\ [at |-> fixedTime, first |-> 1] \in [at : Nat, first : Nat]
            BY <1>t
        <3>3. new \in Seq([at : Nat, first : Nat]) /\ Len(new) = Len(granted[c]) + 1
              /\ Len(granted[c]) \in Nat
            BY <3>2
        <3>4. GrantedForGood(granted[c], counters[c]) /\ counters[c] \in Nat
            BY <1>t
        <3>5. GrantedForGood(new, counters[c] + 1)
            BY <1>t, <2>3, <3>3, <3>4 DEF GrantedForGood
        <3>6. granted'[c] = new /\ granted' \in [Callers -> Seq([at : Nat, first : Nat])]
            BY <1>t, <3>1, <3>3
        <3>7. \A d \in Callers \ {c} : granted'[d] = granted[d] /\ counters'[d] = counters[d]
            BY <1>t, <2>1, <3>1
        <3>8. \A d \in Callers : GrantedForGood(granted'[d], counters'[d])
            BY <1>t, <2>2, <3>5, <3>6, <3>7
        <3>9. FixedTypeOK'
            BY <1>t, <2>1, <2>2, <3>6 DEF FixedTypeOK
        <3> QED
            BY <1>t, <2>1, <3>8, <3>9 DEF ForGoodInv
    <2>4. CASE counters[c] \notin 1..(MaxRequests - 1)
        <3>1. granted' = granted
            BY <1>1, <2>4 DEF RedisCheckForGood
        <3>2. GrantedForGood(granted[c], counters[c]) /\ counters[c] \in Nat
              /\ Len(granted[c]) \in Nat
            BY <1>t
        <3>3. GrantedForGood(granted[c], counters[c] + 1)
            BY <1>t, <2>4, <3>2 DEF GrantedForGood
        <3>4. \A d \in Callers \ {c} : counters'[d] = counters[d]
            BY <1>t, <2>1
        <3>5. \A d \in Callers : GrantedForGood(granted'[d], counters'[d])
            BY <1>t, <2>2, <3>1, <3>3, <3>4
        <3>6. FixedTypeOK'
            BY <1>t, <2>1, <2>2, <3>1 DEF FixedTypeOK
        <3> QED
            BY <1>t, <2>1, <3>5, <3>6 DEF ForGoodInv
    <2> QED
        BY <2>3, <2>4
<1>2. ASSUME NEW c \in Callers, ResetCaller(c) PROVE ForGoodInv'
    <2>1. /\ counters' = [counters EXCEPT ![c] = 0] /\ granted' = [granted EXCEPT ![c] = <<>>]
          /\ UNCHANGED <<inRedis, expiring, windowStart, lastCleanup, fixedTime>>
        BY <1>2 DEF ResetCaller
    <2>2. <<>> \in Seq([at : Nat, first : Nat]) /\ Len(<<>>) = 0
        OBVIOUS
    <2>3. FixedTypeOK'
        BY <1>t, <2>1, <2>2 DEF FixedTypeOK
    <2>4. GrantedForGood(<<>>, 0)
        BY <1>t, <2>2 DEF GrantedForGood
    <2>5. /\ granted'[c] = <<>> /\ counters'[c] = 0
          /\ \A d \in Callers \ {c} : granted'[d] = granted[d] /\ counters'[d] = counters[d]
        BY <1>t, <2>1
    <2>6. \A d \in Callers : GrantedForGood(granted'[d], counters'[d])
        BY <1>t, <2>4, <2>5
    <2> QED
        BY <1>t, <2>1, <2>3, <2>6 DEF ForGoodInv
<1>3. ASSUME UNCHANGED <<inRedis, expiring, counters, windowStart, lastCleanup, granted>>,
             fixedTime' \in {fixedTime, fixedTime + 1}
      PROVE  ForGoodInv'
    BY <1>t, <1>3 DEF ForGoodInv, FixedTypeOK
<1>4. CASE FixedTick
    BY <1>3, <1>4 DEF FixedTick
<1>5. CASE UNCHANGED fixedVars
    BY <1>3, <1>5 DEF fixedVars
<1>6. /\ \A c \in Callers : ~Check(c) /\ ~Refuse(c) /\ ~RedisCheck(c)
      /\ ~Cleanup
    BY <1>t DEF Check, Refuse, RedisCheck, Cleanup
<1> QED
    BY <1>1, <1>2, <1>4, <1>5, <1>6 DEF FixedNext

LEMMA ExpiringStays == [FixedNext]_fixedVars => UNCHANGED expiring
BY DEF FixedNext, Check, Refuse, RedisCheck, RedisCheckForGood, ResetCaller, Cleanup, FixedTick,
       fixedVars


LEMMA FixedAlwaysInv == FixedSpec => []FixedInv
<1>1. FixedInit => FixedInv
    BY FixedInitInv, ForGoodInitInv DEF FixedInv
<1>2. FixedInv /\ [FixedNext]_fixedVars => FixedInv'
    BY FixedStepInv, ForGoodStepInv, ExpiringStays DEF FixedInv
<1> QED
    BY <1>1, <1>2, PTL DEF FixedSpec

\* Tables and histories keep their types, and RateLimiter counts no further than
\* max_requests (check() and cleanup() of the two limiters).
THEOREM FixedTyped == FixedSpec => []FixedTypeOK
<1>1. FixedInv => FixedTypeOK
    BY DEF FixedInv, FixedIInv, ForGoodInv
<1> QED
    BY <1>1, FixedAlwaysInv, PTL

\* Two windows lie between a grant and the one 2 * max_requests after it.
LEMMA BurstSpansWindow ==
    ASSUME NEW g, NEW count, NEW start, NEW time, WindowInv(g, count, start, time),
           NEW i \in 1..(Len(g) - 2 * MaxRequests)
    PROVE  g[i + 2 * MaxRequests].at >= g[i].at + WindowTicks
<1>1. /\ g \in Seq(FixedGrants) /\ time \in Nat
      /\ InWindows(g, time) /\ WindowsApart(g)
    BY DEF WindowInv
<1>2. PICK n \in Nat : n = Len(g)
    BY <1>1
<1>3. \A k \in 1..n : /\ g[k].at \in Nat
                      /\ g[k].first \in 1..k /\ k - g[k].first < MaxRequests
    BY <1>1, <1>2, GrantsTyped
<1>4. i \in Nat /\ i > 0 /\ i + 2 * MaxRequests <= n
    BY <1>2
<1>5. PICK m \in Nat : m = MaxRequests
    OBVIOUS
<1>6. PICK j \in Nat : j = i + m + m
    BY <1>4, <1>5
<1>7. i + 2 * MaxRequests = j /\ j \in 1..n /\ i \in 1..n
    BY <1>4, <1>5, <1>6
<1>8. PICK f \in 1..n : f = g[j].first /\ f <= j /\ j - f < m
    <2>1. g[j].first \in 1..j /\ j - g[j].first < m
        BY <1>3, <1>5, <1>7
    <2> QED
        BY <1>7, <2>1
<1>9. f - 1 \in 1..n /\ f - 1 \in Nat /\ f > i + m /\ f > 1
    <2>1. f \in Nat /\ m \in Nat /\ f <= n /\ i + m < f
        BY <1>2, <1>4, <1>5, <1>6, <1>8
    <2> QED
        BY <1>4, <2>1
<1>10. PICK e \in 1..n : e = g[f - 1].first /\ e >= i
    <2>1. g[f - 1].first \in 1..(f - 1) /\ (f - 1) - g[f - 1].first < m
        BY <1>3, <1>5, <1>9
    <2>2. g[f - 1].first \in 1..n /\ g[f - 1].first >= i
        BY <1>4, <1>5, <1>9, <2>1
    <2> QED
        BY <2>2
<1>11. g[f].at >= g[e].at + WindowTicks
    <2>1. OpenedLate(g, f)
        BY <1>1, <1>2, <1>7, <1>8 DEF WindowsApart
    <2> QED
        BY <1>9, <1>10, <2>1 DEF OpenedLate
<1>12. \A k, l \in 1..n : k <= l => g[k].at <= g[l].at
    BY <1>1, <1>2 DEF InWindows
<1>13. g[f].at <= g[j].at /\ g[i].at <= g[e].at
    <2>1. f <= j /\ i <= e
        BY <1>8, <1>10
    <2> QED
        BY <1>7, <1>12, <2>1
<1>14. g[f].at \in Nat /\ g[j].at \in Nat /\ g[i].at \in Nat /\ g[e].at \in Nat
    BY <1>3, <1>7
<1>15. g[j].at >= g[i].at + WindowTicks
    <2>1. ASSUME NEW a \in Nat, NEW b \in Nat, NEW c \in Nat, NEW d \in Nat,
                 c >= b + WindowTicks, c <= d, a <= b
          PROVE  d >= a + WindowTicks
        BY <2>1
    <2> QED
        BY <1>11, <1>13, <1>14, <2>1, Zenon
<1>16. g[i + 2 * MaxRequests] = g[j]
    BY <1>7, Zenon
<1> QED
    BY <1>15, <1>16, Zenon

\* However checks, refusals, cleanups and resets of any number of callers
\* interleave, 2 * max_requests + 1 checks that pass span at least a window
\* (check() of RateLimiter, the script of RedisRateLimiter).
THEOREM FixedBoundsBurst == FixedSpec => []BurstBounded
<1>1. FixedIInv => BurstBounded
    BY BurstSpansWindow DEF FixedIInv, BurstBounded
<1>2. ForGoodInv => BurstBounded
    <2> SUFFICES ASSUME ForGoodInv, NEW c \in Callers,
                        NEW i \in 1..(Len(granted[c]) - 2 * MaxRequests)
                 PROVE  FALSE
        BY DEF BurstBounded
    <2>1. GrantedForGood(granted[c], counters[c])
          /\ granted \in [Callers -> Seq([at : Nat, first : Nat])]
        BY DEF ForGoodInv, FixedTypeOK
    <2>2. Len(granted[c]) \in Nat
        BY <2>1
    <2> QED
        BY <2>1, <2>2, FixedAssumption DEF GrantedForGood
<1>3. FixedInv => BurstBounded
    BY <1>1, <1>2 DEF FixedInv
<1> QED
    BY <1>3, FixedAlwaysInv, PTL
=============================================================================
