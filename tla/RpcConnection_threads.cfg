\* Two contexts that are threads: `++n` of next_rqid() is not atomic.
CONSTANTS
    c1 = c1
    c2 = c2
    NoId = NoId
    Callers <- MCCallers
    Timeouts <- MCTimeoutsDefault
    IdBits = 4
    MaxCallsPerCaller = 2
    ConcurrentCallers = TRUE
SYMMETRY CallerSymmetry
SPECIFICATION Spec
INVARIANT SyncCallGetsOwnResponse
