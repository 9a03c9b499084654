----------------------------- MODULE MCServices -----------------------------
(***************************************************************************)
(* Model values for checking the stores and limiters, and what is built on *)
(* sealed packages.  They share no state and no step of one depends on     *)
(* another, so interleaving them would add nothing: every behaviour runs   *)
(* one of them, chosen at the start, and the others stay as they began.    *)
(***************************************************************************)
EXTENDS CachingKeyStore, FileKeyStore, NonceStore, FixedLimiter, SlidingLimiter,
        TrustStore, LiveSession, ChunkedTransfer, PackageStream, SecureContext,
        HttpExchange, SealedPackage, TLC

CONSTANTS t1, t2

VARIABLE part

\* The values of blocks and the keys of anchors are alike: the first block of a file, if it
\* has one, and the key that signed the certificate, are taken to be these.
FirstBlock == CHOOSE b \in Blocks : TRUE
IssuingKey == CHOOSE k \in AnchorKeys : TRUE

storeVars == <<cardVars, fileVars, nonceVars, fixedVars, slidingVars, trustVars>>
deliveryVars == <<liveVars, chunkVars, streamVars, contextVars, httpVars, packageVars>>
allVars == <<part, storeVars, deliveryVars>>

Stores == {"cards", "file", "nonces", "fixed", "sliding", "trust"}
Deliveries == {"live", "chunk", "stream", "context", "http", "package"}

Init ==
    /\ part \in Stores \cup Deliveries
    /\ CardsInit /\ FileInit /\ NonceInit /\ FixedInit /\ SlidingInit /\ TrustInit
    /\ LiveInit /\ ChunkInit /\ StreamInit /\ ContextInit /\ HttpInit /\ PackageInit
    /\ part # "nonces" => nonceKind = "memory"
    /\ part # "fixed" => ~inRedis /\ expiring
    /\ part # "sliding" => ~shared
    /\ IF part = "chunk"
       THEN content # <<>> => content[1] = FirstBlock
       ELSE content = <<>>
    /\ part # "stream" => ~toFile
    /\ part # "context" => asyncGuard = {} /\ \A k \in KeyStores : keyKind[k] = "memory"
    /\ IF part = "http"
       THEN \* One store that outlives the processes, or workers that have none.
            IF durable THEN Cardinality(guards) = 1 ELSE serverMode = "hybrid" /\ ~clientFallback
       ELSE serverMode = "none" /\ ~clientFallback /\ durable /\ guards = Guards

NextStore ==
    \/ /\ part = "cards" /\ CardsNext
       /\ UNCHANGED <<fileVars, nonceVars, fixedVars, slidingVars, trustVars>>
    \/ /\ part = "file" /\ FileNext
       /\ UNCHANGED <<cardVars, nonceVars, fixedVars, slidingVars, trustVars>>
    \/ /\ part = "nonces" /\ NonceNext
       /\ UNCHANGED <<cardVars, fileVars, fixedVars, slidingVars, trustVars>>
    \/ /\ part = "fixed" /\ FixedNext
       /\ UNCHANGED <<cardVars, fileVars, nonceVars, slidingVars, trustVars>>
    \/ /\ part = "sliding" /\ SlidingNext
       /\ UNCHANGED <<cardVars, fileVars, nonceVars, fixedVars, trustVars>>
    \/ /\ part = "trust" /\ TrustNext
       /\ \A c \in Certs : issued'[c] \in {NoKey, IssuingKey}
       /\ UNCHANGED <<cardVars, fileVars, nonceVars, fixedVars, slidingVars>>

NextDelivery ==
    \/ /\ part = "live" /\ LiveNext
       /\ UNCHANGED <<chunkVars, streamVars, contextVars, httpVars, packageVars>>
    \/ /\ part = "chunk" /\ ChunkNext
       /\ UNCHANGED <<liveVars, streamVars, contextVars, httpVars, packageVars>>
    \/ /\ part = "stream" /\ StreamNext
       /\ UNCHANGED <<liveVars, chunkVars, contextVars, httpVars, packageVars>>
    \/ /\ part = "context" /\ ContextNext
       /\ UNCHANGED <<liveVars, chunkVars, streamVars, httpVars, packageVars>>
    \/ /\ part = "http" /\ HttpNext
       /\ UNCHANGED <<liveVars, chunkVars, streamVars, contextVars, packageVars>>
    \/ /\ part = "package" /\ PackageNext
       /\ UNCHANGED <<liveVars, chunkVars, streamVars, contextVars, httpVars>>

Next ==
    \/ NextStore /\ UNCHANGED <<part, deliveryVars>>
    \/ NextDelivery /\ UNCHANGED <<part, storeVars>>

Spec == Init /\ [][Next]_allVars

\* Clients, processes, threads, workers and transfers are the same two values. No part has
\* both these and nonces, so that one exchange of both serves all.
Alike == {p \in Permutations({t1, t2} \cup MarkNonces) :
             \A n \in MarkNonces : p[n] \in MarkNonces /\ (p[n] = n <=> p[t1] = t1)}

\* The part that runs tells states apart: the others stay as they began.
PartView ==
    CASE part = "cards"   -> <<part, cardVars>>
      [] part = "file"    -> <<part, fileVars>>
      [] part = "nonces"  -> <<part, nonceVars>>
      [] part = "fixed"   -> <<part, fixedVars>>
      [] part = "sliding" -> <<part, slidingVars>>
      [] part = "trust"   -> <<part, trustVars>>
      [] part = "live"    -> <<part, liveVars>>
      [] part = "chunk"   -> <<part, chunkVars>>
      [] part = "stream"  -> <<part, streamVars>>
      [] part = "context" -> <<part, contextVars>>
      [] part = "http"    -> <<part, httpVars>>
      [] part = "package" -> <<part, packageVars>>

\* The other parts are in their initial states.
TypeOK ==
    CASE part = "cards"   -> CardsTypeOK
      [] part = "file"    -> FileTypeOK
      [] part = "nonces"  -> NonceTypeOK
      [] part = "fixed"   -> FixedTypeOK
      [] part = "sliding" -> SlidingTypeOK
      [] part = "trust"   -> TrustTypeOK
      [] part = "live"    -> LiveTypeOK
      [] part = "chunk"   -> ChunkTypeOK
      [] part = "stream"  -> StreamTypeOK
      [] part = "context" -> ContextTypeOK
      [] part = "http"    -> HttpTypeOK
      [] part = "package" -> PackageTypeOK

(* The nonce stores implement the register of nonces: ImplementsRegister,  *)
(* asked of the steps of that part only, as no other part moves a nonce    *)
(* (mark_used(), is_seen() and cleanup() of the stores).                   *)
NoncesAreRegister ==
    /\ Register!Init
    /\ [][part = "nonces" => [Register!Next]_(Register!vars)]_nonceVars
=============================================================================
