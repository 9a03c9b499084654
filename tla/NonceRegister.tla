--------------------------- MODULE NonceRegister ---------------------------
(***************************************************************************)
(* What a nonce store promises to ReplayGuard and Handshake: who marks a   *)
(* nonce is the only one, until the time of the mark is over.  There is no *)
(* clock here, only what is left of each mark.  A store over which callers *)
(* with different clocks share their marks may keep one slack less than    *)
(* its time.  A store that drops all its marks together does so when no    *)
(* mark was made for the time of the last one and Grace.  A mark may be    *)
(* made although the caller never hears that its nonce was accepted, and a *)
(* nonce may be refused at any time.                                       *)
(***************************************************************************)
EXTENDS Naturals

CONSTANTS
    Nonces,
    Lifetimes, \* the times for which nonces are marked
    Grace      \* how much longer than its last mark a store lives that drops all

VARIABLES
    slack,     \* how much of a mark may be missing
    drops,     \* whether the store drops its marks together
    remaining, \* how long each nonce is refused yet
    idle,      \* for how long a store that drops its marks keeps them yet
    accepted   \* how often the caller heard that the nonce was new

terms == <<slack, drops>>
vars == <<terms, remaining, idle, accepted>>

Less(time) == IF time > 0 THEN time - 1 ELSE 0

Init ==
    /\ slack \in Nat
    /\ drops \in BOOLEAN
    /\ remaining = [n \in Nonces |-> 0]
    /\ idle = 0
    /\ accepted = [n \in Nonces |-> 0]

Mark(n, time, late) ==
    /\ remaining[n] = 0
    /\ remaining' = [remaining EXCEPT ![n] = IF time > late THEN time - late ELSE 0]
    /\ idle' = IF drops THEN time + Grace ELSE idle
    /\ \/ accepted' = [accepted EXCEPT ![n] = @ + 1]
       \/ UNCHANGED accepted
    /\ UNCHANGED terms

Pass ==
    /\ idle' = Less(idle)
    /\ remaining' = [n \in Nonces |->
                        IF drops /\ idle' = 0 THEN 0 ELSE Less(remaining[n])]
    /\ UNCHANGED <<terms, accepted>>

Next ==
    \/ Pass
    \/ \E n \in Nonces, time \in Lifetimes, late \in 0..slack : Mark(n, time, late)

Spec == Init /\ [][Next]_vars
=============================================================================
