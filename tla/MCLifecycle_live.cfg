CONSTANTS
    a = a
    b = b
    Name = {a, b}
    Interval = {1}
    Overlap = FALSE
    ShutdownTimeout = FALSE
    MaxTime = 3
    Dashboards = TRUE
    Storages = {"sqlite", "memory"}
    MaxLives = 2
    MaxFaults = 1
SPECIFICATION FairLifecycle
INVARIANTS EachRunEnqueued DashboardStops
PROPERTIES DueCronFires StartReturnsEventually
\* The system stops when the last process has ended.
CHECK_DEADLOCK FALSE
