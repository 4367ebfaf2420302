CONSTANTS
    MaxDuration = 127
    NoKey = NoKey
    DefaultBase = 3
    DefaultCap = 60
    Queues <- MCQueues
    Chains <- MCChains
    Pushes <- MCPushes
    MaxAttempt = 9
SPECIFICATION ScheduleSpec
INVARIANTS ScheduleTypeOK DeadAfterLimit
PROPERTY GrowsThenStays
\* A schedule ends at the dead letter or at MaxAttempt.
CHECK_DEADLOCK FALSE
