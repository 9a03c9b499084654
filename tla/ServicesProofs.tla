--------------------------- MODULE ServicesProofs ---------------------------
(***************************************************************************)
(* A step of the specification that the services run checks is a step of   *)
(* one part, so that it implies the specification of each part: what is    *)
(* proved of a part, for every value of the constants, holds of that run.  *)
(***************************************************************************)
EXTENDS MCServices, StorageProofs, LimiterProofs, DeliveryProofs

-----------------------------------------------------------------------------
(* A step is a step of one part, and leaves the variables of all others.   *)

LEMMA StepOfStores ==
    [Next]_allVars =>
        /\ [CardsNext]_cardVars
        /\ [FileNext]_fileVars
        /\ [NonceNext]_nonceVars
        /\ [FixedNext]_fixedVars
        /\ [SlidingNext]_slidingVars
        /\ [TrustNext]_trustVars
<1> SUFFICES ASSUME [Next]_allVars
             PROVE  /\ [CardsNext]_cardVars
                    /\ [FileNext]_fileVars
                    /\ [NonceNext]_nonceVars
                    /\ [FixedNext]_fixedVars
                    /\ [SlidingNext]_slidingVars
                    /\ [TrustNext]_trustVars
    OBVIOUS
<1>1. CASE UNCHANGED storeVars
    BY <1>1 DEF storeVars
<1>2. CASE NextStore
    BY <1>2 DEF NextStore
<1>3. UNCHANGED storeVars \/ NextStore
    BY DEF Next, allVars
<1> QED
    BY <1>1, <1>2, <1>3

LEMMA StepOfDeliveries ==
    [Next]_allVars =>
        /\ [LiveNext]_liveVars
        /\ [ChunkNext]_chunkVars
        /\ [StreamNext]_streamVars
        /\ [ContextNext]_contextVars
        /\ [HttpNext]_httpVars
        /\ [PackageNext]_packageVars
<1> SUFFICES ASSUME [Next]_allVars
             PROVE  /\ [LiveNext]_liveVars
                    /\ [ChunkNext]_chunkVars
                    /\ [StreamNext]_streamVars
                    /\ [ContextNext]_contextVars
                    /\ [HttpNext]_httpVars
                    /\ [PackageNext]_packageVars
    OBVIOUS
<1>1. CASE UNCHANGED deliveryVars
    BY <1>1 DEF deliveryVars
<1>2. CASE NextDelivery
    BY <1>2 DEF NextDelivery
<1>3. UNCHANGED deliveryVars \/ NextDelivery
    BY DEF Next, allVars
<1> QED
    BY <1>1, <1>2, <1>3

\* Each behaviour of the services is one of the stores and limiters.
LEMMA StoresRun ==
    Spec => CardsSpec /\ FileSpec /\ NonceSpec /\ FixedSpec /\ SlidingSpec /\ TrustSpec
<1>1. Init => CardsInit /\ FileInit /\ NonceInit /\ FixedInit /\ SlidingInit /\ TrustInit
    BY DEF Init
<1> QED
    BY <1>1, StepOfStores, PTL
    DEF Spec, CardsSpec, FileSpec, NonceSpec, FixedSpec, SlidingSpec, TrustSpec

\* Each behaviour of the services is one of what is built on sealed packages.
LEMMA DeliveriesRun ==
    Spec => LiveSpec /\ ChunkSpec /\ StreamSpec /\ ContextSpec /\ HttpSpec /\ PackageSpec
<1>1. Init => LiveInit /\ ChunkInit /\ StreamInit /\ ContextInit /\ HttpInit /\ PackageInit
    BY DEF Init
<1> QED
    BY <1>1, StepOfDeliveries, PTL
    DEF Spec, LiveSpec, ChunkSpec, StreamSpec, ContextSpec, HttpSpec, PackageSpec

LEMMA PartChosen == Spec => [](part \in Stores \cup Deliveries)
<1>1. Init => part \in Stores \cup Deliveries
    BY DEF Init
<1>2. part \in Stores \cup Deliveries /\ [Next]_allVars => (part \in Stores \cup Deliveries)'
    BY DEF Next, allVars
<1> QED
    BY <1>1, <1>2, PTL DEF Spec

\* The part that runs keeps its types.
THEOREM ServicesTyped == Spec => []TypeOK
<1>1. ASSUME CardsTypeOK, FileTypeOK, NonceTypeOK, FixedTypeOK, SlidingTypeOK, TrustTypeOK,
             LiveTypeOK, ChunkTypeOK, StreamTypeOK, ContextTypeOK, HttpTypeOK, PackageTypeOK,
             part \in Stores \cup Deliveries
      PROVE  TypeOK
    BY <1>1 DEF TypeOK, Stores, Deliveries
<1> QED
    BY <1>1, StoresRun, DeliveriesRun, PartChosen, CardsTyped, FileTyped, NoncesTyped,
       FixedTyped, SlidingTyped, TrustTyped, LiveTyped, ChunkTyped, StreamTyped,
       ContextTyped, HttpTyped, PackageTyped, PTL

\* What the stores and limiters promise, none of the other parts disturbs.
THEOREM StoresKeepPromises ==
    Spec => [](/\ StaleCardEnds
               /\ FileIsWhatWasWritten
               /\ AcceptedOncePerTTL
               /\ BurstBounded
               /\ WindowKept
               /\ AcceptedWasGood
               /\ SavedIsFresh)
BY StoresRun, CardsStaleOnlyBriefly, FileKeepsUpdates, NonceHeldForTTL, FixedBoundsBurst,
   SlidingKeepsWindow, VerifyIsAtomic, SaveIsDurable, PTL

\* What is built on sealed packages keeps its promises, none of the other parts
\* disturbs.
THEOREM DeliveriesKeepPromises ==
    Spec => [](/\ ListenerInStep
               /\ TransferIsSource
               /\ StreamAccounted
               /\ ContextKept
               /\ ExchangeOnce
               /\ ReturnedAsSent)
BY DeliveriesRun, ListenerStaysInStep, TransferDelivers, StreamKeptAccount, ContextIsKept,
   ExchangedOnce, PackageReturnedAsSent, PTL

\* The nonce stores are registers while the other parts stay as they are (mark_used(),
\* is_seen() and cleanup() of the stores).
THEOREM NoncesStayRegister == Spec => NoncesAreRegister
<1>1. [Register!Next]_(Register!vars) =>
          [part = "nonces" => [Register!Next]_(Register!vars)]_nonceVars
    OBVIOUS
<1> QED
    BY <1>1, StoresRun, StoresAreRegisters, PTL
    DEF NoncesAreRegister, ImplementsRegister, Register!Spec
=============================================================================
