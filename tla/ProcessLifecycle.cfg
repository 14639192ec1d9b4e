SPECIFICATION ProcessesSpec
CONSTANTS
    \* Two CPUs, three task slots, three processes.
    Cpus = {bsp, ap}
    Bsp = bsp
    NoCpu = NoCpu
    MaxTasks = 3
    BootTasks = 2
    Ctxs = {x1, x2, x3}
    NoCtx = NoCtx
    MaxId = 4
    MaxSleep = 1
    Ops = {"run", "exit", "exec", "fault", "terminate"}
    \* A process: its image, break, mappings and shared buffers.
    PhysPages = 8
    ImageBase = 0
    HeapBase = 3
    MmapBase = 5
    SharedBase = 8
    MapLimit = 10
    Spans <- MCSpans
    ImagePages = 1
    PmSizes = {2}
    BufferSizes = {1, 2}
    MaxRecords = 2
    MaxBuffers = 2
    MaxCuts = 1
    MaxLoads = 1
    MaxHeapFaults = 1
    Untaken = Untaken
SYMMETRY CtxSymmetry
INVARIANTS
    ContextsOwned
    CodeRunsInOwnSpace
    SchedulableIsLive
    PagesOwned
    
