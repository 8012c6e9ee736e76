SPECIFICATION Spec
CONSTANTS
    a = a
    b = b
    c = c
    None = None
    Names = {a, b}
    Pids = {p1, p2}
    MaxServices = 2
    HardDeps <- PairDeps
    Logged = {}
    Finishers = {}
    Downed = {}
    Onced = {}
    Vanishing = {}
    MaxRestarts = 1
    PipeCapacity = 1
    Signals = {}
    Commands = {"stop"}
    Faults = {}
    SlowExec = FALSE
SYMMETRY PidSymmetry
INVARIANTS DependentsFollow
