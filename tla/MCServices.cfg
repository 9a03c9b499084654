SPECIFICATION Spec
VIEW PartView
SYMMETRY Alike
CONSTANTS
    t1 = t1
    t2 = t2
    \* CachingKeyStore
    Clients = {t1, t2}
    Entities = {e1}
    Cards = {k1, k2}
    NoCard = NoCard
    CardTTL = 2
    MaxDelay = 1
    LastCardTime = 5
    \* FileKeyStore
    Processes = {t1, t2}
    Ids = {i1, i2}
    CardValues = {v1, v2}
    Absent = Absent
    LastFileTime = 2
    MaxVersion = 3
    \* NonceStore
    MarkNonces = {n1, n2}
    TTLs = {2, 4}
    NonceCapacity = 1
    CallsPerCleanup = 3
    KeyGrace = 1
    NonceSpread = 1
    LastNonceTime = 4
    \* FixedLimiter
    Callers = {t1, t2}
    MaxRequests = 2
    WindowTicks = 2
    MaxCounters = 1
    CleanupTicks = 2
    LastFixedTime = 5
    MaxCounted = 4
    \* SlidingLimiter
    Askers = {t1, t2}
    MaxInWindow = 2
    SlideTicks = 3
    MaxLogs = 1
    LogCleanupTicks = 2
    ClockSpread = 1
    LastSlideTime = 4
    \* TrustStore
    Threads = {t1, t2}
    AnchorIds = {A}
    AnchorKeys = {ak1, ak2}
    NoKey = NoKey
    Certs = {x}
    \* LiveSession
    Peers = {A, B}
    Caller = A
    FrameLimit = 2
    EpochLimit = 3
    LastFrame = 6
    \* ChunkedTransfer
    Blocks = {b1, b2}
    MaxBlocks = 2
    MaxChanges = 1
    Transfers = {t1, t2}
    \* PackageStream
    LastPackage = 3
    \* SecureContext
    Workers = {t1, t2}
    Identities = {me, other}
    Me = me
    DefaultIdentity = me
    NoIdentity = NoIdentity
    PeerCards = {k1, k2, k3}
    SealedWith = {k1, k2}
    NoPeer = NoPeer
    KeyStores = {ks1, ks2}
    NonceStores = {s1, s2}
    Inbox = {m}
    MaxConfigured = 2
    \* HttpExchange
    Fetches = {t1, t2}
    Guards = {t1, t2}
    LastStarted = 2
    \* SealedPackage
    Sizes = {1000, 30721}
    InlineLimit = 30720
    ChunkSize = 16384
    EnvelopeLimit = 65536
    Overhead = 9114
    MaxKeys = 3
    MaxPackages = 2
CHECK_DEADLOCK FALSE
INVARIANTS
    TypeOK
    StaleCardEnds
    FileIsWhatWasWritten
    AcceptedOncePerTTL
    BurstBounded
    WindowKept
    AcceptedWasGood
    SavedIsFresh
    ListenerInStep
    TransferIsSource
    StreamAccounted
    ContextKept
    ExchangeOnce
    ReturnedAsSent
PROPERTY
    NoncesAreRegister
