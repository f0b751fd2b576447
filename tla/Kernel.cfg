SPECIFICATION Spec
CONSTANTS
    a = a
    b = b
    timer = timer
    idle = idle
    q1 = q1
    Task <- Tasks
    Priority <- Priorities
    Created <- Order
    Calls <- Program
    Queue <- OneQueue
    Length = 1
    IsrQueues <- OneQueue
    Ticks = 4
    MaxMissed = 2
    MaxLock = 1
VIEW View
INVARIANTS TypeOK HighestRuns NoLostWakeUp TimeKept
