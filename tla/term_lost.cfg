SPECIFICATION FairSpec
CONSTANTS
    a = a
    b = b
    c = c
    None = None
    Names = {a}
    Pids = {p1}
    MaxServices = 1
    HardDeps <- NoDeps
    Logged = {}
    Finishers = {}
    Downed = {a}
    Onced = {}
    Vanishing = {}
    MaxRestarts = 0
    PipeCapacity = 2
    Signals = {"TERM", "HUP"}
    Commands = {}
    Faults = {}
    SlowExec = FALSE
PROPERTIES TermIsObeyed
