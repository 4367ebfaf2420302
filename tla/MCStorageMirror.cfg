CONSTANTS
    j1 = j1
    j2 = j2
    j3 = j3
    k1 = k1
    t1 = t1

    NoType = NoType
    NoKey = NoKey
    JobId = {j1, j2, j3}
    JobType = {t1}
    Key = {k1}
    Caller = {c1}
    Second = 2
    MaxTime = 3
    MaxFailures = 1
    Request <- MCRequest
SYMMETRY MCSymmetry
SPECIFICATION MirrorSpec
INVARIANTS StoreTypeOK OneRowPerKey NeverRefused StoragesAgree
PROPERTIES RunningNeverDeleted LockHonoured
\* The clock and the ids may run out.
CHECK_DEADLOCK FALSE
