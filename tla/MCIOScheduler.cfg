CONSTANTS
    n1 = n1
    n2 = n2
    rg = rg
    Targets = {n1, n2}
    Epochs = {1, 2}
    Ranges = {rg}
    Indexes = {0, 1}
    WriteLists <- MCWriteLists
    LearnLists <- MCLearnLists
    CommandLists <- MCCommandLists
    SegmentLists <- MCSegmentLists
    MaxTasks = 3
    MaxBatches = 2
    BatchEmpty = {FALSE}
SPECIFICATION Spec
INVARIANT TypeOK
INVARIANT MessageOfIntent
INVARIANT OneAnswerPerMutation
INVARIANT LearnEndIsLast
INVARIANT PromoteOfCommand
\* When every task is over and no more may be spawned, nothing is left to do.
CHECK_DEADLOCK FALSE
