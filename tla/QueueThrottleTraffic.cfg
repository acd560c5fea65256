CONSTANTS
    Queues = {"updateUsersUsage", "pushFromRedis"}
    Jobs = {"reset", "cleanup"}
    Pauses <- TrafficPauses
    Drains = {"reset"}
    Guarded = {"cleanup"}
    Recurring = {"reset", "cleanup"}
    Concurrency <- Two
    MaxAttempts = 2
    MaxStalls = 1
    MaxWaiting = 1
    MaxFailures = 3
SPECIFICATION ThrottleFairSpec
INVARIANT ThrottleTypeOK
INVARIANT DrainedWhileWorking
INVARIANT PausedHasOwner
PROPERTY PausedIsResumed
