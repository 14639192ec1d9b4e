SPECIFICATION RingsSpec
CONSTANTS
    \* Two callers, and a device that is late for one request.
    Callers = {c1, c2}
    BlockCount = 3
    v1 = v1
    v2 = v2
    Values <- TwoValues
    MaxChunk = 2
    IdxMod = 3
    NoCaller = NoCaller
    NoValue = NoValue
    BlkWritten <- TwoBuffers
    MaxBlkTimeouts = 1
    \* Two channels, two DMA buffers in a list of three descriptors.
    Channels = {1, 2}
    PendingCapacity = 2
    OutputRate = 3
    WindowFrames = 2
    TargetFrames = 3
    DmaSlots = {1, 2}
    Descriptors = 3
    Totals = {2}
    Rates = {2}
    Windows = 4
    MaxSoundCalls = 3
    MaxFaulty = 1
    Nothing = Nothing
INVARIANTS
    TransfersSound
    PlayedAsAsked
PROPERTIES
    RequestsApart
    LockReturned
    SoundDrains
