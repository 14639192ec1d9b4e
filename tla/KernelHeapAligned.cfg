\* Coalescing after aligned requests.
SPECIFICATION HeapSpec
CONSTANTS
    Threads = {t1}
    Header = 2
    MinSplit = 1
    PageSize = 4
    MinSubheap = 0
    Base = 32
    Size = 12
    Supply <- SupplyAround
    Sizes = {1, 3}
    HeapAlignments = {1, 2, 4}
    MaxLive = 2
INVARIANTS
    HeapCoalesced
