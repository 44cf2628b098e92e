\* Two streams and two truncating threads, no crash: truncations of the same
\* and of different streams overlap, and the refresh loop meets both streams.
CONSTANTS
    s1 = s1
    s2 = s2
    t1 = t1
    t2 = t2
    c1 = c1
    Streams = {s1, s2}
    Epochs = {1}
    WriterEpochs = {1}
    IndexSpace = 3
    AckSeqs <- MCAckAll
    KeepSeqs <- MCKeepBoth
    BatchSizes = {2}
    ReadLimit = 2
    Truncators = {t1, t2}
    Readers = {c1}
    MaxCalls = 4
    MaxCrashes = 0
    MaxFiles = 1
SYMMETRY StreamSymmetry
SPECIFICATION Spec
INVARIANT RecoveryRebuildsIndex
PROPERTY TruncatedNotReadable
\* Every call returns and the database may be left alone with nothing to do.
CHECK_DEADLOCK FALSE
