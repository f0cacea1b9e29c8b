\* Safety: two contexts on one event loop, 4-bit ids, two calls each.
CONSTANTS
    c1 = c1
    c2 = c2
    NoId = NoId
    Callers <- MCCallers
    Timeouts <- MCTimeoutsDefault
    IdBits = 4
    MaxCallsPerCaller = 2
    ConcurrentCallers = FALSE
SYMMETRY CallerSymmetry
SPECIFICATION Spec
INVARIANT SyncCallGetsOwnResponse
INVARIANT AsyncCallGetsOwnResponse
