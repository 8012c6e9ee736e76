SPECIFICATION LoopSpec
CONSTANTS
    a = a
    b = b
    c = c
    d = d
    None = None
    Names = {a, b}
    Pids <- MCPids
    MaxServices = 2
    HardDeps <- LoopDeps
    Tables <- MCTables
    Logged = {}
    Finishers = {}
    Downed = {}
    Onced = {}
    Vanishing = {}
    MaxRestarts = 0
    PipeCapacity = 1
    Signals = {}
    Commands = {}
    Faults = {}
    SlowExec = FALSE
INVARIANTS DependentsFirst
