SPECIFICATION TablesSpec
CONSTANTS
    \* Two tasks that share the stream table and a file.
    Tasks = {t1, t2}
    NoTask = NoTask
    Paths = {p1}
    NoPath = NoPath
    NoFile = NoFile
    MaxStreams = 2
    MinCapacity = 2
    Junk = Junk
    Files <- FewFiles
    Inputs <- OneByte
    MaxLength = 1
    MaxOpening = 1
    \* A disk and two network cards, loaded and unloaded by two tasks.
    Loaders = {l1, l2}
    DriverPages = {1, 2, 3, 4, 5, 6, 7, 8, 9, 10}
    BlockEntries = 2
    NetEntries = 3
    NetCards = 2
    MaxCalls = 6
    MaxLoading = 2
    MaxDeviceFaults = 1
    NoPage = 0
    \* Two callers of the object tree, and tasks that come and go.
    Callers = {c1, c2}
    Slots <- TwoSlots
    MaxId = 2
    MaxItems = 2
    Requests <- SomeRequests
    MaxRequests = 2
    KobjDrivers <- TwoDrivers
    BlockNames <- OneDisk
    NetNames <- OneCard
    PciCount = 1
    \* Two readers of the PS/2 port.
    Readers = {r1, r2}
    PacketQueue = 2
    Typing <- SomeTyping
    Motions <- SomeMotions
    Stray = 2
    PortBytes = 2
    MaxReading = 2
SYMMETRY TaskSymmetry
INVARIANTS
    HandlesOwned
    
    
    
PROPERTIES
    SettingsHold
CHECK_DEADLOCK FALSE
