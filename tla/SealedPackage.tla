--------------------------- MODULE SealedPackage ---------------------------
(***************************************************************************)
(* Send() and Receive() of secure/_dispatch.py and aio/secure.py, from one *)
(* identity to another: a small payload is sealed in one envelope, a large *)
(* one in chunks under a session key that the envelope carries.  Both      *)
(* identities rotate their keys, are saved and loaded again, and hand out  *)
(* public cards.                                                           *)
(*                                                                         *)
(* Only the envelope is signed.  The labels of a package, its data_type    *)
(* and is_chunked, and the list of its chunks are not: on the way they may *)
(* be lost, swapped, repeated, damaged, or come from another package.      *)
(*                                                                         *)
(* The keys of an identity are numbered as they are generated; a signature *)
(* verifies, and a ciphertext opens, under the keys with the same number.  *)
(*                                                                         *)
(* The nonce store is a synchronous one, so that the envelope is marked    *)
(* after it was verified; the other order, of an AsyncNonceStore, is in    *)
(* ReplayGuard and SecureContext.                                          *)
(***************************************************************************)
EXTENDS Integers, Sequences, FiniteSets

CONSTANTS
    Sizes,         \* the payloads to send, in bytes
    InlineLimit,   \* up to here a payload goes into one envelope (30 KiB)
    ChunkSize,     \* the length of a chunk (16 KiB)
    EnvelopeLimit, \* Envelope.MAX_BYTES (64 KiB)
    Overhead,      \* what an envelope holds besides its ciphertext
    MaxKeys,       \* bound of the model: the keys generated, two to begin with
    MaxPackages    \* bound of the model: packages sent

ASSUME PackageAssumption ==
    /\ Sizes \subseteq Nat
    /\ {InlineLimit, ChunkSize, EnvelopeLimit, Overhead} \subseteq Nat \ {0}
    /\ MaxKeys \in Nat /\ MaxKeys >= 2
    /\ MaxPackages \in Nat

VARIABLES
    keys,       \* the keys each identity works with
    made,       \* how many were generated
    saved,      \* those in its identity file
    cards,      \* the keys on the card of each that the other has
    revokedOf,  \* whose card is revoked, or expired, at the other
    packages,   \* the packages in the order they were sent
    tooLarge,   \* a payload was refused because its envelope is too large
    seen,       \* the packages whose nonce the receiver has marked
    handedOver, \* what Receive() returned for each package, every time
    mishandled, \* history: first arrived otherwise than it was sent, or found other keys
    relabelled  \* history: first arrived with neither of its labels as it was sent

packageVars == <<keys, made, saved, cards, revokedOf, packages, tooLarge, seen,
                 handedOver, mishandled, relabelled>>

identityVars == <<keys, made, saved, cards, revokedOf>>
receiverVars == <<seen, handedOver, mishandled, relabelled>>

Roles == {"sender", "receiver"}

\* The chunks a package must have: none if its envelope holds the payload.
Chunked(size) == size > InlineLimit
ChunkTotal(size) == IF Chunked(size) THEN (size + ChunkSize - 1) \div ChunkSize ELSE 0

LongestTotal ==
    CHOOSE n \in {ChunkTotal(s) : s \in Sizes} : \A s \in Sizes : ChunkTotal(s) <= n

Package == [total : Nat, signedWith : 1..MaxKeys, sealedFor : 1..MaxKeys]

\* A sealed chunk: of which package, and its number in it.  One that is damaged
\* opens nowhere, like one of a package that was sent without chunks.
SealedChunks == [package : DOMAIN packages, seq : 1..LongestTotal]

PackageTypeOK ==
    /\ keys \in [Roles -> 1..MaxKeys]
    /\ made \in 2..MaxKeys
    /\ saved \in [Roles -> 1..MaxKeys]
    /\ cards \in [Roles -> 1..MaxKeys]
    /\ revokedOf \subseteq Roles
    /\ packages \in Seq(Package)
    /\ tooLarge \in BOOLEAN
    /\ handedOver \in [1..MaxPackages -> Seq(Seq(Nat))]
    /\ seen \cup mishandled \cup relabelled \subseteq DOMAIN packages

PackageInit ==
    /\ keys = [r \in Roles |-> IF r = "sender" THEN 1 ELSE 2]
    /\ made = 2
    /\ saved = keys
    /\ cards = keys
    /\ revokedOf = {}
    /\ packages = <<>>
    /\ tooLarge = FALSE
    /\ seen = {}
    /\ handedOver = [i \in 1..MaxPackages |-> <<>>]
    /\ mishandled = {}
    /\ relabelled = {}

----------------------------------------------------------------------------
(* Identities and cards.                                                   *)

\* The application goes on with the Identity that rotate_keys() returns.
RotateKeys(r) ==
    /\ made < MaxKeys
    /\ made' = made + 1
    /\ keys' = [keys EXCEPT ![r] = made + 1]
    /\ UNCHANGED <<saved, cards, revokedOf, packages, tooLarge, receiverVars>>

\* save() replaces the identity file.
Save(r) ==
    /\ saved' = [saved EXCEPT ![r] = keys[r]]
    /\ UNCHANGED <<keys, made, cards, revokedOf, packages, tooLarge, receiverVars>>

\* The program starts again and loads the file: keys rotated since are gone.
Load(r) ==
    /\ keys' = [keys EXCEPT ![r] = saved[r]]
    /\ UNCHANGED <<made, saved, cards, revokedOf, packages, tooLarge, receiverVars>>

\* The other side registers a card of the present keys.
PublishCard(r) ==
    /\ cards' = [cards EXCEPT ![r] = keys[r]]
    /\ revokedOf' = revokedOf \ {r}
    /\ UNCHANGED <<keys, made, saved, packages, tooLarge, receiverVars>>

\* The other side revokes its card, or the card passes its valid_until.
EndCard(r) ==
    /\ revokedOf' = revokedOf \cup {r}
    /\ UNCHANGED <<keys, made, saved, cards, packages, tooLarge, receiverVars>>

----------------------------------------------------------------------------
(* Send().                                                                 *)

\* encrypt() appends 16 bytes, and the envelope holds the ciphertext in hex.
Fits(size) == 2 * (size + 16) + Overhead <= EnvelopeLimit

\* seal_for() of the receiver's card, with the sender's keys.
SealFor(total) ==
    packages' = Append(packages,
        [total |-> total, signedWith |-> keys["sender"], sealedFor |-> cards["receiver"]])

\* Envelope.from_dict(), which ends seal_for(), raises when it does not fit.
SendInline(size) ==
    /\ ~Chunked(size)
    /\ IF Fits(size)
       THEN SealFor(0) /\ UNCHANGED tooLarge
       ELSE tooLarge' = TRUE /\ UNCHANGED packages

\* The envelope holds a session key of 32 bytes.
SendChunked(size) ==
    /\ Chunked(size)
    /\ IF Fits(32)
       THEN SealFor(ChunkTotal(size)) /\ UNCHANGED tooLarge
       ELSE tooLarge' = TRUE /\ UNCHANGED packages

\* seal_for() raises before all else if the card is revoked or expired.
Send(size) ==
    /\ Len(packages) < MaxPackages
    /\ "receiver" \notin revokedOf
    /\ SendInline(size) \/ SendChunked(size)
    /\ UNCHANGED <<identityVars, receiverVars>>

----------------------------------------------------------------------------
(* Receive() of a package with the envelope of the e-th package sent, as   *)
(* it arrives: "labelled" if its data_type is the one it was sent with,    *)
(* "chunked" if its is_chunked is set, and "chunks" in their list.         *)

\* The envelope is as it was sealed, and the card of the sender verifies it.
CardVerifies(e, intact) ==
    /\ intact
    /\ "sender" \notin revokedOf
    /\ packages[e].signedWith = cards["sender"]

\* Bug: the nonce is marked before the card and the signatures are looked at.
BadMarkEnvelope(e, intact) == seen' = seen \cup {e}

\* open_from() marks the nonce after it has verified the envelope.
MarkEnvelope(e, intact) == seen' = IF CardVerifies(e, intact) THEN seen \cup {e} ELSE seen

\* decrypt_verified_envelope()
Opens(e) == packages[e].sealedFor = keys["receiver"]

\* A chunk is sealed under the session key with the nonce and its number.
ChunkOpens(e, chunks, i) == chunks[i] = [package |-> e, seq |-> i]

\* Every chunk opens, in its place, and their number is the one signed for.
Whole(e, chunks) ==
    /\ packages[e].total > 0
    /\ \A i \in DOMAIN chunks : ChunkOpens(e, chunks, i)
    /\ Len(chunks) = packages[e].total

\* What _secure_receive_payload() returns is the content of the envelope, <<>>, be that
\* the payload or a session key, or the chunks, by their numbers.
Opened(e, chunked, chunks) == chunked => Whole(e, chunks)
Content(chunks) == [i \in DOMAIN chunks |-> chunks[i].seq]

\* A session key is not a UXSPPayload, which every type that is sent in chunks is.
IsPayload(e, chunked) == chunked \/ packages[e].total = 0

AsSent(e, labelled, chunked, chunks) ==
    /\ labelled
    /\ chunked = (packages[e].total > 0)
    /\ chunks = [i \in 1..packages[e].total |-> [package |-> e, seq |-> i]]

Relabelled(e, labelled, chunked) == ~labelled /\ chunked # (packages[e].total > 0)

(* The handler of its own data type reads a payload, and raises on what is *)
(* none.  That of another may raise; "live_session" makes a session of 32  *)
(* bytes, and of a type it does not know Receive() returns the bytes.      *)
HandOver(e, labelled, chunked, chunks) ==
    \/ /\ labelled => IsPayload(e, chunked)
       /\ handedOver' = [handedOver EXCEPT ![e] = Append(@, Content(chunks))]
    \/ /\ ~labelled \/ ~IsPayload(e, chunked)
       /\ UNCHANGED handedOver

(* Damaged on the way, the envelope fails in open_from(), whatever came    *)
(* with it; with other ids, or a data type in another spelling than its    *)
(* handler expects, Receive() raises before.                               *)
ReceiveDamaged(e) ==
    /\ MarkEnvelope(e, FALSE)
    /\ UNCHANGED <<identityVars, packages, tooLarge, handedOver, mishandled, relabelled>>

Receive(e, labelled, chunked, chunks) ==
    /\ chunked => chunks # <<>>                \* otherwise it raises before all else
    /\ MarkEnvelope(e, TRUE)
    /\ IF /\ e \notin seen
          /\ CardVerifies(e, TRUE)
          /\ Opens(e)
          /\ Opened(e, chunked, chunks)
       THEN HandOver(e, labelled, chunked, chunks)
       ELSE UNCHANGED handedOver
    /\ IF e \notin seen /\ CardVerifies(e, TRUE)
       THEN /\ mishandled' = IF AsSent(e, labelled, chunked, chunks) /\ Opens(e)
                             THEN mishandled ELSE mishandled \cup {e}
            /\ relabelled' = IF Relabelled(e, labelled, chunked)
                             THEN relabelled \cup {e} ELSE relabelled
       ELSE UNCHANGED <<mishandled, relabelled>>
    /\ UNCHANGED <<identityVars, packages, tooLarge>>

\* The chunks that may arrive: of any package, in any order, some of them lost.
\* (In a longer list one would be in a place where it does not open.)
Arrivals == UNION {[1..n -> SealedChunks] : n \in 0..LongestTotal}

PackageNext ==
    \/ \E r \in Roles : RotateKeys(r) \/ Save(r) \/ Load(r) \/ PublishCard(r) \/ EndCard(r)
    \/ \E size \in Sizes : Send(size)
    \/ \E e \in DOMAIN packages :
          \/ ReceiveDamaged(e)
          \/ \E labelled \in BOOLEAN :
                \/ Receive(e, labelled, FALSE, <<>>)
                \/ \E chunks \in Arrivals : Receive(e, labelled, TRUE, chunks)

PackageSpec == PackageInit /\ [][PackageNext]_packageVars

----------------------------------------------------------------------------
(* A package is returned once, by the receiver it was sealed for, with all *)
(* of its chunks in their order, however its parts were mixed up, or, only *)
(* if both of its labels were changed, with the session key in their       *)
(* place; and one whose nonce is used up was returned, unless it arrived   *)
(* first with other labels or chunks, or when the receiver had other keys: *)
(* nothing else uses it up, neither damage nor a card that is revoked or   *)
(* out of date (open_from() before commit(), and the chunks of             *)
(* _secure_receive_payload()).                                             *)
ReturnedAsSent ==
    \A e \in DOMAIN packages :
        /\ Len(handedOver[e]) <= 1
        /\ \A i \in DOMAIN handedOver[e] :
               \/ handedOver[e][i] = [n \in 1..packages[e].total |-> n]
               \/ handedOver[e][i] = <<>> /\ e \in relabelled
        /\ e \in seen => handedOver[e] # <<>> \/ e \in mishandled

\* "Use single envelope for payloads <= 30 KiB to ensure sealed envelope stays under
\* 64 KiB" (secure/_engine.py:77): no payload is refused for the size of its envelope.
EnvelopeFits == ~tooLarge
=============================================================================
