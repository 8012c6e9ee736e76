SPECIFICATION FairLoopSpec
CONSTANTS
    a = a
    b = b
    c = c
    d = d
    None = None
    Names = {a, b, c, d}
    Pids <- MCPids
    MaxServices = 4
    HardDeps <- LoopDeps
    Tables <- MCTables
    Logged = {}
    Finishers = {}
    Downed = {}
    Onced = {}
    Vanishing = {}
    MaxRestarts = 0
    PipeCapacity = 1
    Signals = {}
    Commands = {}
    Faults = {}
    SlowExec = FALSE
INVARIANTS LoopTypeOK CascadeIsLeast EverybodyIsStopped NobodyTwice DependenciesFirst
PROPERTIES LoopsEnd LoopsShrink
