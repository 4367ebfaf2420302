CONSTANTS
    t1 = t1
    t2 = t2
    k1 = k1
    k2 = k2
    NoType = NoType
    NoKey = NoKey
    NoWorker = NoWorker
    NoHolder = NoHolder
    JobId = {j1, j2}
    JobType = {t1}
    Key = {k1, k2}
    Caller = {w1}
    Handled = {t1}
    Second = 1
    MaxDuration = 127
    PoolPolicy <- MCPolicy
    DefPolicy <- MCDefPolicy
    ShutdownTimeout = FALSE
    MaxTime = 2
    MaxLives = 2
    MaxManual = 1
    ErrorCap = 0
    MaxFaults = 0
    Request <- KeyedRequests
SYMMETRY MCSymmetry
SPECIFICATION PoolSpec
PROPERTY ImplementsLock
\* The system stops when every job is completed and no client acts.
CHECK_DEADLOCK FALSE
