----------------------------- MODULE TrustStore -----------------------------
(***************************************************************************)
(* TrustStore of core/signing.py: the certificates that anchors issue, the *)
(* registry of anchors and of revoked certificates, shared by the threads  *)
(* of a process, and the file it is saved to.  verify() and add_crl() take *)
(* the lock several times, so other threads run in between; save() holds a *)
(* file lock while it takes its snapshot and replaces the file.            *)
(*                                                                         *)
(* Keys are model values and signatures are perfect: a copy of a card      *)
(* verifies under the key that signed it, and only when it is genuine.     *)
(***************************************************************************)
EXTENDS Integers

CONSTANTS
    Threads,        \* threads that use the store
    AnchorIds,      \* anchor_id
    AnchorKeys,     \* the keys anchors have and rotate to
    NoKey,          \* no anchor, no certificate, no copy of a key
    Certs           \* cert_id

ASSUME TrustAssumption == AnchorIds # {} /\ NoKey \notin AnchorKeys

VARIABLES
    issued,    \* the key that signed each certificate
    validity,  \* where the clock is, to not_before and not_after of each
    anchors,   \* _anchors: the keys of each anchor
    revokedCerts,   \* _revoked_certs
    trustFile, \* what save() wrote last
    task,      \* what each thread is doing
    wasGood,   \* history: the card of this verify() was good at a moment of the call
    cleared,   \* history: its certificate was unrevoked during the call
    due        \* history: the revocations that this save() must write

trustVars == <<issued, validity, anchors, revokedCerts, trustFile, task, wasGood, cleared, due>>

Keys == AnchorKeys \cup {NoKey}
Steps == {"idle", "check revoked", "check signature", "accepted", "check crl",
          "apply crl", "waiting", "replacing", "saved"}
Image == [anchors : [AnchorIds -> Keys], revokedCerts : SUBSET Certs]

TrustTypeOK ==
    /\ issued \in [Certs -> Keys]
    /\ validity \in [Certs -> {"before", "within", "after"}]
    /\ anchors \in [AnchorIds -> Keys]
    /\ revokedCerts \subseteq Certs
    /\ trustFile \in Image
    /\ task \in [Threads -> [step : Steps, issuer : AnchorIds, keys : Keys, signed : Keys,
                             certs : SUBSET Certs, image : Image]]
    /\ wasGood \in [Threads -> BOOLEAN]
    /\ cleared \in [Threads -> BOOLEAN]
    /\ due \in [Threads -> SUBSET Certs]

NoImage == [anchors |-> [a \in AnchorIds |-> NoKey], revokedCerts |-> {}]
NoTask == [step |-> "idle", issuer |-> CHOOSE a \in AnchorIds : TRUE, keys |-> NoKey,
           signed |-> NoKey, certs |-> {}, image |-> NoImage]

TrustInit ==
    /\ issued = [c \in Certs |-> NoKey]
    /\ validity = [c \in Certs |-> "before"]
    /\ anchors = [a \in AnchorIds |-> NoKey]
    /\ revokedCerts = {}
    /\ trustFile = NoImage
    /\ task = [t \in Threads |-> NoTask]
    /\ wasGood = [t \in Threads |-> FALSE]
    /\ cleared = [t \in Threads |-> FALSE]
    /\ due = [t \in Threads |-> {}]

----------------------------------------------------------------------------
Verifying(t) == task[t].step \in {"check revoked", "check signature", "accepted"}

\* The card that t verifies is signed by a trusted anchor and not revoked.
Good(t) ==
    /\ anchors[task[t].issuer] = task[t].signed
    /\ task[t].signed # NoKey
    /\ task[t].certs \cap revokedCerts = {}

\* A thread whose call is over forgets it; "accepted" and "saved" stay for a moment.
At(t, step) == task[t].step = step
Free(t) == task[t].step \in {"idle", "accepted", "saved"}

Go(t, step) == task' = [task EXCEPT ![t].step = step]
EndTask(t) == task' = [task EXCEPT ![t] = NoTask]

Saving(t) == task[t].step \in {"waiting", "replacing", "saved"}

\* What a step does to the histories of the calls that go on.
Watch ==
    /\ wasGood' = [t \in Threads |-> Verifying(t)' /\ (wasGood[t] \/ Good(t)')]
    /\ cleared' = [t \in Threads |-> Verifying(t)' /\ cleared[t]]
    /\ due' = [t \in Threads |-> IF Saving(t)' THEN due[t] ELSE {}]

----------------------------------------------------------------------------
(* TrustAnchor.issue() of the anchor that holds the key k; not_before is   *)
(* now or later.                                                           *)
Issue(c, k) ==
    /\ issued[c] = NoKey
    /\ issued' = [issued EXCEPT ![c] = k]
    /\ validity' \in {validity, [validity EXCEPT ![c] = "within"]}
    /\ UNCHANGED <<anchors, revokedCerts, trustFile, task, wasGood, cleared, due>>

\* The clock passes not_before, or not_after.
ClockPasses(c) ==
    /\ issued[c] # NoKey /\ validity[c] # "after"
    /\ validity' = [validity EXCEPT ![c] = IF @ = "before" THEN "within" ELSE "after"]
    /\ UNCHANGED <<issued, anchors, revokedCerts, trustFile, task, wasGood, cleared, due>>

----------------------------------------------------------------------------
(* The registry *)

Add(a, k) ==
    /\ anchors' = [anchors EXCEPT ![a] = k]
    /\ UNCHANGED <<issued, validity, revokedCerts, trustFile, task>>
    /\ Watch

RemoveAnchor(a) ==
    /\ anchors' = [anchors EXCEPT ![a] = NoKey]
    /\ UNCHANGED <<issued, validity, revokedCerts, trustFile, task>>
    /\ Watch

Revoke(c) ==
    /\ revokedCerts' = revokedCerts \cup {c}
    /\ UNCHANGED <<issued, validity, anchors, trustFile, task>>
    /\ Watch

Unrevoke(c) ==
    /\ c \in revokedCerts
    /\ revokedCerts' = revokedCerts \ {c}
    /\ UNCHANGED <<issued, validity, anchors, trustFile, task>>
    /\ wasGood' = [t \in Threads |-> Verifying(t) /\ (wasGood[t] \/ Good(t)')]
    /\ cleared' = [t \in Threads |-> cleared[t] \/ (Verifying(t) /\ c \in task[t].certs)]
    /\ due' = [t \in Threads |-> due[t] \ {c}]

----------------------------------------------------------------------------
(* add_crl(): the issuer's keys under the lock, the signature without it,  *)
(* the revocations under the lock again.  The CRL is signed with k, or is  *)
(* not genuine (NoKey); it may name any certificate.                       *)

BeginCrl(t, a, k, certs) ==
    /\ Free(t)
    /\ anchors[a] # NoKey
    /\ task' = [task EXCEPT ![t] = [NoTask EXCEPT !.step = "check crl", !.issuer = a,
                    !.keys = anchors[a], !.signed = k, !.certs = certs]]
    /\ UNCHANGED <<issued, validity, anchors, revokedCerts, trustFile>>
    /\ Watch

CheckCrl(t) ==
    /\ At(t, "check crl")
    /\ IF task[t].keys = task[t].signed THEN Go(t, "apply crl") ELSE EndTask(t)
    /\ UNCHANGED <<issued, validity, anchors, revokedCerts, trustFile>>
    /\ Watch

ApplyCrl(t) ==
    /\ At(t, "apply crl")
    /\ revokedCerts' = revokedCerts \cup task[t].certs
    /\ EndTask(t)
    /\ UNCHANGED <<issued, validity, anchors, trustFile>>
    /\ Watch

\* With verify_signature=False this is all add_crl() does.
TrustCrl(t, certs) ==
    /\ Free(t)
    /\ revokedCerts' = revokedCerts \cup certs
    /\ EndTask(t)
    /\ UNCHANGED <<issued, validity, anchors, trustFile>>
    /\ Watch

----------------------------------------------------------------------------
(* verify(): the keys of the issuer under the lock, the registry under the *)
(* lock again, then validity and signature without it.  The issuer_id of a *)
(* card is not signed, so it may be any.                                   *)

StartVerify(t, c, a, genuine) ==
    task' = [task EXCEPT ![t] = [NoTask EXCEPT !.step = "check revoked", !.issuer = a,
                !.keys = anchors[a], !.signed = IF genuine THEN issued[c] ELSE NoKey,
                !.certs = {c}]]

\* Bug: the registry is asked first and the keys are fetched when they are needed.
BadKeysFor(t) == anchors[task[t].issuer]

\* The keys the signature is checked with.
KeysFor(t) == task[t].keys

BeginVerify(t, c, a, genuine) ==
    /\ Free(t)
    /\ issued[c] # NoKey
    /\ anchors[a] # NoKey
    /\ StartVerify(t, c, a, genuine)
    /\ UNCHANGED <<issued, validity, anchors, revokedCerts, trustFile, due>>
    /\ wasGood' = [wasGood EXCEPT ![t] = Good(t)']
    /\ cleared' = [cleared EXCEPT ![t] = FALSE]

CheckRevoked(t) ==
    /\ At(t, "check revoked")
    /\ IF task[t].certs \cap revokedCerts = {}
       THEN Go(t, "check signature")
       ELSE EndTask(t)
    /\ UNCHANGED <<issued, validity, anchors, revokedCerts, trustFile>>
    /\ Watch

\* The expected entity and the validity are checked first.
CheckSignature(t) ==
    /\ At(t, "check signature")
    /\ \/ /\ \E c \in task[t].certs : validity[c] = "within"
          /\ KeysFor(t) = task[t].signed
          /\ Go(t, "accepted")
       \/ EndTask(t)
    /\ UNCHANGED <<issued, validity, anchors, revokedCerts, trustFile>>
    /\ Watch

----------------------------------------------------------------------------
(* save(): the snapshot is taken once the file lock is held, and the file  *)
(* replaced before it is released.  load() builds a new store.             *)

BeginSave(t) ==
    /\ Free(t)
    /\ task' = [task EXCEPT ![t] = [NoTask EXCEPT !.step = "waiting"]]
    /\ due' = [due EXCEPT ![t] = revokedCerts]
    /\ wasGood' = [wasGood EXCEPT ![t] = FALSE]
    /\ cleared' = [cleared EXCEPT ![t] = FALSE]
    /\ UNCHANGED <<issued, validity, anchors, revokedCerts, trustFile>>

Unlocked == \A t \in Threads : ~At(t, "replacing")

\* Bug: the snapshot is taken without the file lock.
BadTakeSnapshot(t) ==
    /\ At(t, "waiting")
    /\ task' = [task EXCEPT ![t].step = "replacing",
                            ![t].image = [anchors |-> anchors, revokedCerts |-> revokedCerts]]
    /\ UNCHANGED <<issued, validity, anchors, revokedCerts, trustFile, wasGood, cleared, due>>

TakeSnapshot(t) ==
    /\ At(t, "waiting")
    /\ Unlocked
    /\ task' = [task EXCEPT ![t].step = "replacing",
                            ![t].image = [anchors |-> anchors, revokedCerts |-> revokedCerts]]
    /\ UNCHANGED <<issued, validity, anchors, revokedCerts, trustFile, wasGood, cleared, due>>

\* A write that fails leaves the file as it was.
ReplaceFile(t) ==
    /\ At(t, "replacing")
    /\ \/ trustFile' = task[t].image /\ Go(t, "saved")
       \/ UNCHANGED trustFile /\ EndTask(t)
    /\ UNCHANGED <<issued, validity, anchors, revokedCerts>>
    /\ Watch

\* The process ends at any point and the next one loads the file.
Restart ==
    /\ anchors' = trustFile.anchors
    /\ revokedCerts' = trustFile.revokedCerts
    /\ task' = [t \in Threads |-> NoTask]
    /\ UNCHANGED <<issued, validity, trustFile>>
    /\ Watch

----------------------------------------------------------------------------
TrustNext ==
    \/ \E c \in Certs :
          \/ Revoke(c) \/ Unrevoke(c) \/ ClockPasses(c)
          \/ \E k \in AnchorKeys : Issue(c, k)
    \/ \E a \in AnchorIds : RemoveAnchor(a) \/ \E k \in AnchorKeys : Add(a, k)
    \/ \E t \in Threads :
          \/ \E a \in AnchorIds, k \in Keys, certs \in (SUBSET Certs) \ {{}} : BeginCrl(t, a, k, certs)
          \/ CheckCrl(t)
          \/ ApplyCrl(t)
          \/ \E certs \in (SUBSET Certs) \ {{}} : TrustCrl(t, certs)
          \/ \E c \in Certs, a \in AnchorIds, genuine \in BOOLEAN : BeginVerify(t, c, a, genuine)
          \/ CheckRevoked(t)
          \/ CheckSignature(t)
          \/ BeginSave(t)
          \/ TakeSnapshot(t)
          \/ ReplaceFile(t)
    \/ Restart

TrustSpec == TrustInit /\ [][TrustNext]_trustVars

----------------------------------------------------------------------------
(* verify() takes the lock twice and checks the signature without it, yet  *)
(* whoever adds, replaces or removes anchors and applies CRLs meanwhile:   *)
(* a card it returns was, at one and the same moment of the call, signed   *)
(* by a key of a trusted anchor and not revoked.  Only an unrevoke() of    *)
(* its certificate during the call can make it miss that moment.           *)
AcceptedWasGood ==
    \A t \in Threads : At(t, "accepted") => wasGood[t] \/ cleared[t]

(* When a save() returns, the file holds every revocation that the store   *)
(* had when it was called and has not been taken back since, whatever      *)
(* other threads save at the same time; a crash and load() then keep them. *)
SavedIsFresh ==
    \A t \in Threads : At(t, "saved") => due[t] \subseteq trustFile.revokedCerts
=============================================================================
