\* The bounds of MCStreamDBEpochs.cfg: does write answer for the range it wrote?
CONSTANTS
    s1 = s1
    s2 = s2
    t1 = t1
    t2 = t2
    c1 = c1
    Streams = {s1}
    Epochs = {1}
    WriterEpochs = {1, 2}
    IndexSpace = 3
    AckSeqs <- MCAckAll
    KeepSeqs = {}
    BatchSizes = {1}
    ReadLimit = 1
    Truncators = {}
    Readers = {}
    MaxCalls = 4
    MaxCrashes = 2
    MaxFiles = 3
SPECIFICATION Spec
PROPERTY WriteIndexCoversRange
\* Every call returns and the database may be left alone with nothing to do.
CHECK_DEADLOCK FALSE
