SPECIFICATION Spec
CONSTANTS
    a = a
    b = b
    c = c
    None = None
    Names = {a, b, c}
    Pids = {p1, p2, p3}
    MaxServices = 3
    HardDeps <- ChainDeps
    Logged = {}
    Finishers = {}
    Downed = {}
    Onced = {}
    Vanishing = {}
    MaxRestarts = 1
    PipeCapacity = 1
    Signals = {"TERM"}
    Commands = {}
    Faults = {}
    SlowExec = FALSE
SYMMETRY PidSymmetry
INVARIANTS DependentsFollow
PROPERTIES CascadeComplete CascadeMinimal
