SPECIFICATION FairStreams
CONSTANTS
    MaxStarts = 2
    MaxBytes = 2
    PipeSize = 2
    BufSize = 2
    LogLimit = 2
    HasLog = TRUE
    Faults = {"pipe", "fork", "open", "write", "read"}
INVARIANTS StreamTypeOK LogLenTrue InOrder OutputKept DescriptorsExact
PROPERTIES EofNoticed LoggersEnd
