\* Two threads, two generators; every counter wraps around within four calls.
SPECIFICATION Spec
CONSTANTS
    t1 = t1  t2 = t2  s1 = s1
    NoThread = NoThread  None = None
    Threads <- TwoThreads
    Seeds <- OneSeed
    Lengths <- SomeLengths
    N = 2
    NextSize = 3
    CountSize = 2
    MaxCalls = 4
SYMMETRY ThreadSymmetry
INVARIANT NeverRepeats
INVARIANT Deterministic
