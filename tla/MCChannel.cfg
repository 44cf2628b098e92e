\* One consumer (the log worker), as the log engine runs it.
CONSTANTS
    w1 = w1
    r1 = r1
    r2 = r2
    NONE = NONE
    Consumers <- MCConsumers
    Records <- MCRecords
    MaxAppends = 3
    MaxShutdowns = 1

SPECIFICATION Spec

INVARIANT TypeOK
INVARIANT NoLostWakeup
PROPERTY ImplementsLogQueue
PROPERTY EveryRequestTaken

\* After the shutdown has been delivered and the bounded producers are done
\* nothing is left to do.
CHECK_DEADLOCK FALSE
