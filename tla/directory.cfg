SPECIFICATION Spec
CONSTANTS
    a = a
    b = b
    c = c
    None = None
    Names = {a, b}
    Pids = {p1, p2, p3}
    MaxServices = 1
    HardDeps <- NoDeps
    Logged = {a}
    Finishers = {b}
    Downed = {}
    Onced = {b}
    Vanishing = {a}
    MaxRestarts = 0
    PipeCapacity = 1
    Signals = {}
    Commands = {"start", "stop", "restart", "signal", "check", "reload", "query"}
    Faults = {"opendir", "readdir"}
    SlowExec = TRUE
SYMMETRY PidSymmetry
INVARIANTS TypeOK RunningMeansAlive PidsTracked OneInstance
PROPERTIES MarksAreSignalled
