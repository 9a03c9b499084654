SPECIFICATION PackageSpec
CONSTANTS
    Sizes = {1000, 30720, 30721}
    InlineLimit = 30720
    ChunkSize = 16384
    EnvelopeLimit = 65536
    Overhead = 9114
    MaxKeys = 3
    MaxPackages = 2
CHECK_DEADLOCK FALSE
INVARIANTS
    EnvelopeFits
