SPECIFICATION ProcessSpec
CONSTANTS
    Cpus = {bsp, ap}
    Bsp = bsp
    NoCpu = NoCpu
    MaxTasks = 3
    BootTasks = 2
    Ctxs = {x1, x2, x3}
    NoCtx = NoCtx
    MaxId = 4
    MaxSleep = 1
    Ops = {"exit"}
PROPERTY UnmappedAfterSwitch
