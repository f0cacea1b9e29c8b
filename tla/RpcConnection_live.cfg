\* Liveness: two contexts on one event loop, one call each, 2-bit ids (the
\* second id is the lowest negative int), the default
\* timeout may be changed meanwhile.
CONSTANTS
    c1 = c1
    c2 = c2
    NoId = NoId
    Callers <- MCCallers
    Timeouts <- MCTimeouts
    IdBits = 2
    MaxCallsPerCaller = 1
    ConcurrentCallers = FALSE
SPECIFICATION Spec
PROPERTY SyncCallTerminates
