SPECIFICATION CpusSpec
CONSTANTS
    \* Two CPUs, three slots.
    Cpus = {bsp, ap}
    Bsp = bsp
    NoCpu = NoCpu
    MaxTasks = 3
    BootTasks = 3
    Ctxs = {}
    NoCtx = NoCtx
    MaxId = 4
    MaxSleep = 1
    Ops = {"yield", "sleep", "create", "exit", "terminate"}
    \* Two faults, one panic of a task, two lines of tasks and interrupts.
    Processors = {bsp, ap}
    Free = Free
    MaxTries = 2
    MaxTraps = 2
    MaxDirect = 1
    MaxLines = 2
INVARIANTS
    DispatchSound
    ClockHonest
    CriticalSections
PROPERTIES
    
    CpusGoOn
    PanicSpeaks
