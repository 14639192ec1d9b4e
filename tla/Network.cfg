SPECIFICATION NetworkSpec
CONSTANTS
    \* Three peers, a cache of two, a queue of two slots (one frame).
    Peers = {p1, p2, p3}
    Stations = {m1, m2}
    p1 = p1
    p2 = p2
    p3 = p3
    m1 = m1
    m2 = m2
    Arrivals <- SomeArrivals
    CacheEntries = 2
    QueueCapacity = 2
    IndexBound = 3
    ResolveTicks = 1
    MaxFrames = 3
    MaxPings = 1
    MaxTimeouts = 1
    None = None
    \* A table of three CPUs.
    Tables <- SomeTables
    Boot = 0
    MaxCpus = 3
    MaxGivenUp = 1
    MaxMissed = 2
    Nobody = Nobody
INVARIANTS
    
    CpusApart
PROPERTIES
    ReportedIsSent
    NetReturns
    BringupEnds
CHECK_DEADLOCK FALSE
