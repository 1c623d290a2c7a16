SPECIFICATION RateSpec
CONSTANTS
    Key = {k1, k2}
    Unit = 3
    Rate = 2
    Burst = 1
    Interval = 2
    Throttle = 6
INVARIANT AuditThrottled
CHECK_DEADLOCK FALSE
