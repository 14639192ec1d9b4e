SPECIFICATION MemorySpec
CONSTANTS
    \* The pages: a pool that runs out.
    Map <- MCMap
    PoolSize = 6
    Counts = {1, 2}
    Alignments = {1, 2}
    Limits = {0, 7}
    \* The heap: two threads, plain and aligned requests, and requests the
    \* pages cannot satisfy.
    Threads = {t1, t2}
    Header = 2
    MinSplit = 1
    PageSize = 4
    MinSubheap = 0
    Base = 32
    Size = 12
    Supply <- SupplyAround
    Sizes = {1, 3, 8}
    HeapAlignments = {1, 4}
    MaxLive = 2
INVARIANTS
    PagesSound
    Recovers
    HeapSound
PROPERTIES
    Implements
    RequestsEnd
