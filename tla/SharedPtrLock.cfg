CONSTANTS
    Shareds = {s1, s2}
    Weaks = {w1}
    None = None
    MaxForgotten = 0
SPECIFICATION Spec
INVARIANT LockIsSafe
CHECK_DEADLOCK FALSE
