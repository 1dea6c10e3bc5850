CONSTANTS
    n1 = n1
    n2 = n2
    h1 = h1
    h2 = h2
    h3 = h3
    Names <- MCNames
    Handles <- MCHandles
SYMMETRY MCSymmetry
SPECIFICATION TimerSpec
INVARIANT OrderMatchesKeys
INVARIANT ReportSafeWhenIdle
CHECK_DEADLOCK FALSE
