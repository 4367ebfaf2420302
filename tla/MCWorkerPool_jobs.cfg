CONSTANTS
    t1 = t1
    t2 = t2
    k1 = k1
    k2 = k2
    NoType = NoType
    NoKey = NoKey
    NoWorker = NoWorker
    NoHolder = NoHolder
    JobId = {j1, j2}
    JobType = {t1, t2}
    Key = {k1}
    Caller = {w1, w2}
    Handled = {t1}
    Second = 1
    MaxDuration = 127
    PoolPolicy <- MCPolicy
    DefPolicy <- MCDefPolicy
    ShutdownTimeout = TRUE
    MaxTime = 3
    MaxLives = 2
    MaxManual = 1
    ErrorCap = 1
    MaxFaults = 1
    Request <- PlainRequests
SYMMETRY MCSymmetry
SPECIFICATION PoolSpec
INVARIANTS
    PoolTypeOK ExclusiveExecution OwnedRowsRunning FreshCopy NoStuckRunning
    DispatchNeverBlocks CancelsLive ExecutionsBounded FinalIsFinal
PROPERTY CompletedStays
\* The system stops when every job is completed and no client acts.
CHECK_DEADLOCK FALSE
