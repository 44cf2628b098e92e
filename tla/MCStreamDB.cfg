CONSTANTS
    s1 = s1
    s2 = s2
    t1 = t1
    t2 = t2
    c1 = c1
    Streams = {s1}
    Epochs = {1}
    WriterEpochs = {1}
    IndexSpace = 3
    AckSeqs <- MCAckSeqs
    KeepSeqs <- MCKeepSeqs
    BatchSizes = {1, 2}
    ReadLimit = 2
    Truncators = {t1}
    Readers = {c1}
    MaxCalls = 4
    MaxCrashes = 1
    MaxFiles = 1
SPECIFICATION Spec
INVARIANT TypeOK
INVARIANT TruncationSafety
INVARIANT NoReaderSleepsOnData
INVARIANT RecoveryRebuildsIndex
PROPERTY AckedSeqMonotonic
PROPERTY TruncatedNotReadable
\* Every call returns and the database may be left alone with nothing to do.
CHECK_DEADLOCK FALSE
