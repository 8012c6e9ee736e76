SPECIFICATION Spec
CONSTANTS
    a = a
    b = b
    c = c
    None = None
    Names = {a, b}
    Pids = {p1, p2, p3}
    MaxServices = 2
    HardDeps <- PairDeps
    Logged = {b}
    Finishers = {}
    Downed = {}
    Onced = {}
    Vanishing = {}
    MaxRestarts = 0
    PipeCapacity = 1
    Signals = {"TERM"}
    Commands = {"start", "stop"}
    Faults = {"fork"}
    SlowExec = FALSE
SYMMETRY PidSymmetry
INVARIANTS StoppingIsSignalled LoggersWatched ShutdownReachesAll
PROPERTIES KeepsContract
