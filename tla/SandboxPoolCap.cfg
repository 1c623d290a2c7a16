SPECIFICATION Spec
CONSTANTS
    Attempt = {p1, p2, p3}
    MaxPods = 1
    Threshold = 2
SYMMETRY AttemptSymmetry
INVARIANT CapRespected
CHECK_DEADLOCK FALSE
