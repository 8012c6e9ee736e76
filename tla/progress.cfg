SPECIFICATION FairSpec
CONSTANTS
    a = a
    b = b
    c = c
    None = None
    Names = {a}
    Pids = {p1, p2}
    MaxServices = 1
    HardDeps <- NoDeps
    Logged = {}
    Finishers = {}
    Downed = {}
    Onced = {}
    Vanishing = {a}
    MaxRestarts = 1
    PipeCapacity = 1
    Signals = {"TERM"}
    Commands = {"stop", "start", "check", "down", "up", "once"}
    Faults = {"opendir"}
    SlowExec = TRUE
PROPERTIES GivenUpIsFinal CrashRecovered ShutdownCompletes RemovedIsDropped
