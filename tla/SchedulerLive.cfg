SPECIFICATION TasksSpec
CONSTANTS
    \* Two CPUs, three slots, one of them reused.
    Cpus = {bsp, ap}
    Bsp = bsp
    NoCpu = NoCpu
    MaxTasks = 3
    BootTasks = 3
    Ctxs = {}
    NoCtx = NoCtx
    MaxId = 4
    MaxSleep = 1
    Ops = {"wait", "create", "exit"}
    \* A queue of three slots holds two events.
    QueueSize = 3
    MaxEvents = 4
    MaxPolls = 4
    MaxToggles = 3
    Silent = {2, 3}
INVARIANTS
    EventsSound
PROPERTIES
    ReadyIsDispatched
    WaitReturns
