---------------------------- MODULE LiveSession ----------------------------
(***************************************************************************)
(* LiveSession of core/live.py: frames under a key that ratchets after     *)
(* FrameLimit frames.  One counter counts what a peer seals and what it    *)
(* opens, and a frame from a later epoch makes the receiver catch up.      *)
(* Frames are lost, repeated, reordered and damaged on their way.          *)
(*                                                                         *)
(* The key of an epoch is derived from the one before, so the epoch stands *)
(* for the key: a frame opens under the epoch it was sealed in, when the   *)
(* epoch in its header, which is authenticated, is still the same.         *)
(***************************************************************************)
EXTENDS Integers

CONSTANTS
    Peers,      \* the two ends of the session
    Caller,     \* the one that made it (SendLiveSession)
    FrameLimit, \* the 65536 frames after which the key ratchets
    EpochLimit, \* the 2^16 epochs a header has room for
    LastFrame   \* bound of the model: the frames a peer seals

ASSUME LiveAssumption ==
    /\ \E p \in Peers : Peers = {Caller, p}
    /\ FrameLimit \in Nat \ {0}
    /\ EpochLimit \in Nat \ {0}
    /\ LastFrame \in Nat

VARIABLES
    joined,     \* the peers that have a LiveSession object
    epoch,      \* epoch of each
    frameCount, \* _frame_count
    lastSeq,    \* _last_seq, -1 before the first frame
    sealed,     \* the frames on their way: who sealed them, in which epoch, and their number
    sentFrames, \* history: how many frames each peer has sealed
    upset       \* history: a frame was opened without its number, or with a damaged header

liveVars == <<joined, epoch, frameCount, lastSeq, sealed, sentFrames, upset>>

Frames == [from : Peers, epoch : 0..(EpochLimit - 1), seq : Nat]

LiveTypeOK ==
    /\ joined \subseteq Peers
    /\ epoch \in [Peers -> Nat]
    /\ frameCount \in [Peers -> 0..(FrameLimit - 1)]
    /\ lastSeq \in [Peers -> Nat \cup {-1}]
    /\ sealed \subseteq Frames
    /\ sentFrames \in [Peers -> Nat]
    /\ upset \in BOOLEAN

LiveInit ==
    /\ joined = {Caller}
    /\ epoch = [p \in Peers |-> 0]
    /\ frameCount = [p \in Peers |-> 0]
    /\ lastSeq = [p \in Peers |-> -1]
    /\ sealed = {}
    /\ sentFrames = [p \in Peers |-> 0]
    /\ upset = FALSE

----------------------------------------------------------------------------
\* ReceiveLiveSession(): the key arrives in a package, which opens once.
Join(p) ==
    /\ p \notin joined
    /\ joined' = joined \cup {p}
    /\ UNCHANGED <<epoch, frameCount, lastSeq, sealed, sentFrames, upset>>

\* Bug: the epoch changes and the counter goes on.
BadAdvance(p, to, n) ==
    /\ epoch' = [epoch EXCEPT ![p] = IF frameCount[p] + n >= FrameLimit THEN to + 1 ELSE to]
    /\ frameCount' = [frameCount EXCEPT ![p] = (@ + n) % FrameLimit]

\* p ratchets until it is in epoch "to" and counts n more frames; _ratchet_key()
\* starts the count again.
Advance(p, to, n) ==
    LET count == (IF to > epoch[p] THEN 0 ELSE frameCount[p]) + n
        full == count >= FrameLimit
    IN  /\ epoch' = [epoch EXCEPT ![p] = IF full THEN to + 1 ELSE to]
        /\ frameCount' = [frameCount EXCEPT ![p] = IF full THEN 0 ELSE count]

\* Bug: the epoch is not held against the room in the header.
BadEncryptFrame(p) ==
    /\ p \in joined
    /\ sentFrames[p] < LastFrame
    /\ sealed' = sealed \cup {[from |-> p, epoch |-> epoch[p], seq |-> sentFrames[p]]}
    /\ sentFrames' = [sentFrames EXCEPT ![p] = @ + 1]
    /\ Advance(p, epoch[p], 1)
    /\ UNCHANGED <<joined, lastSeq, upset>>

\* encrypt_frame(); struct.pack raises when the epoch has no room in the header.
EncryptFrame(p) ==
    /\ p \in joined
    /\ sentFrames[p] < LastFrame
    /\ epoch[p] < EpochLimit
    /\ sealed' = sealed \cup {[from |-> p, epoch |-> epoch[p], seq |-> sentFrames[p]]}
    /\ sentFrames' = [sentFrames EXCEPT ![p] = @ + 1]
    /\ Advance(p, epoch[p], 1)
    /\ UNCHANGED <<joined, lastSeq, upset>>

Later(e1, e2) == IF e1 > e2 THEN e1 ELSE e2

(* decrypt_frame() of a frame that is not damaged; the caller passes the   *)
(* number of the frame, or none (decrypt_voice_frame() never does).        *)
DecryptFrame(p, f, numbered) ==
    /\ p \in joined
    /\ f.from # p
    /\ numbered => f.seq > lastSeq[p]
    /\ IF f.epoch >= epoch[p]
       THEN /\ Advance(p, f.epoch, 1)
            /\ lastSeq' = IF numbered THEN [lastSeq EXCEPT ![p] = f.seq] ELSE lastSeq
       ELSE UNCHANGED <<epoch, frameCount, lastSeq>>       \* decrypt() fails
    /\ upset' = (upset \/ ~numbered)
    /\ UNCHANGED <<joined, sealed, sentFrames>>

\* decrypt_voice_frame() opens a frame without its number.
DecryptVoice(p, f) == DecryptFrame(p, f, FALSE)

\* A damaged frame does not open, and leaves p in the later of its own epoch and the
\* one the header claims: _ratchet_key() comes before the frame is authenticated.
DecryptDamaged(p, f, claimed) ==
    /\ p \in joined
    /\ f.from # p
    /\ Advance(p, Later(claimed, epoch[p]), 0)
    /\ upset' = (upset \/ claimed # f.epoch)
    /\ UNCHANGED <<joined, lastSeq, sealed, sentFrames>>

LiveNext ==
    \E p \in Peers :
        \/ Join(p)
        \/ EncryptFrame(p)
        \/ \E f \in sealed :
              \/ DecryptFrame(p, f, TRUE)
              \/ DecryptVoice(p, f)
              \/ \E claimed \in 0..(EpochLimit - 1) : DecryptDamaged(p, f, claimed)

LiveSpec == LiveInit /\ [][LiveNext]_liveVars

----------------------------------------------------------------------------
(* A peer that only listens never runs ahead of the one it listens to, so  *)
(* the newest frame always opens: neither loss, nor repetition, nor        *)
(* reordering, nor joining late can put them out of step for good, as long *)
(* as the frames are numbered and no header was damaged (the ratchet of    *)
(* encrypt_frame() and decrypt_frame()).                                   *)
ListenerInStep ==
    \A p \in Peers : sentFrames[p] = 0 /\ ~upset =>
        \A q \in Peers : epoch[p] <= epoch[q] \/ q = p
=============================================================================
