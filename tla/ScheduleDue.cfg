CONSTANTS
    c1 = c1
    c2 = c2
    Controller = {c1, c2}
    Period = 1
    Backoff = 1
    MaxConcurrent = 1
    MaxErrors = 2
    RetryFailed = FALSE
    FailPaused = TRUE
    MaxMissed = 1
    Disturbance = {}
    MaxDisturbed = 0
    Starting = {}
    StartTime = 1
    MaxTime = 2
SPECIFICATION Spec
CHECK_DEADLOCK FALSE
INVARIANTS FiresWhenDue
