CONSTANTS
    t1 = t1
    t2 = t2
    k1 = k1
    k2 = k2
    NoType = NoType
    NoKey = NoKey
    NoWorker = NoWorker
    NoHolder = NoHolder
    JobId = {j1}
    JobType = {t1}
    Key = {k1}
    Caller = {w1, w2}
    Handled = {t1}
    Second = 1
    MaxDuration = 127
    PoolPolicy <- MCPolicy
    DefPolicy <- MCDefPolicy
    ShutdownTimeout = TRUE
    MaxTime = 3
    MaxLives = 1
    MaxManual = 0
    ErrorCap = 0
    MaxFaults = 0
    Request <- OneRequest
SYMMETRY MCSymmetry
SPECIFICATION PoolSpec
INVARIANT RunningJobsCancellable
\* The system stops when every job is completed and no client acts.
CHECK_DEADLOCK FALSE
