SPECIFICATION Spec
CONSTANTS
    Cpus = {bsp, ap}
    Bsp = bsp
    NoCpu = NoCpu
    MaxTasks = 4
    BootTasks = 2
    Ctxs = {}
    NoCtx = NoCtx
    MaxId = 4
    MaxSleep = 1
    Ops = {"sleep", "terminate", "create"}
PROPERTY TerminatedIsFinal
