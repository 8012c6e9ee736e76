SPECIFICATION FairSpec
CONSTANTS
    a = a
    b = b
    c = c
    None = None
    Names = {a}
    Pids = {p1, p2}
    MaxServices = 1
    HardDeps <- NoDeps
    Logged = {}
    Finishers = {}
    Downed = {}
    Onced = {}
    Vanishing = {}
    MaxRestarts = 1
    PipeCapacity = 1
    Signals = {}
    Commands = {"restart"}
    Faults = {}
    SlowExec = FALSE
PROPERTIES RestartBringsBack
