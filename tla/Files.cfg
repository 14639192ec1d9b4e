SPECIFICATION FilesSpec
CONSTANTS
    \* One task and one file: what a stream contains.
    Tasks = {t1}
    NoTask = NoTask
    Paths = {p1}
    NoPath = NoPath
    NoFile = NoFile
    MaxStreams = 1
    MinCapacity = 2
    Junk = Junk
    Files <- SomeFiles
    Inputs <- TwoLengths
    MaxLength = 3
    MaxOpening = 1
    \* A directory of two files with long names.
    TotalClusters = 5
    FatCount = 2
    PerSector = 2
    CacheSectors = 2
    SlotsPerCluster = 2
    ClusterSize = 2
    FatPaths <- MCPaths
    LongNames <- MCLong
    SubDirectory = "d"
    Missing = Missing
    Written <- MCWritten
    MaxFaults = 1
    MaxCalls = 3
    \* Up to two disks, out of nine.
    Disks <- MCDisks
    MaxDisks = 2
    BlockBytes = 4
    EntryBytes = 1
    WantedIndex = 1
    MinClusters = 3
    Word = 32
    MaxReadFaults = 2
    Blank = Blank
INVARIANTS
    StreamsSound
    VolumeSound
    ReadsBack
    CacheCoherent
    MountSound
PROPERTIES
    DirtyNotDropped
