CONSTANTS
    c1 = c1
    c2 = c2
    Controller = {c1, c2}
    Period = 1
    Backoff = 1
    MaxConcurrent = 1
    MaxErrors = 1
    RetryFailed = TRUE
    FailPaused = TRUE
    MaxMissed = 1
    Disturbance = {"crash","expire catch-up"}
    MaxDisturbed = 1
    Starting = {c1}
    StartTime = 2
    MaxTime = 2
SPECIFICATION FairSpec
CHECK_DEADLOCK FALSE
INVARIANTS CatchupBounded
PROPERTIES DueSettles
