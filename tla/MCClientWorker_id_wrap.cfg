\* Three callers and two ids: the counter wraps while the first request is
\* still outstanding on the connection (2^32 stands for 2 here).
CONSTANTS
    Reqs <- MCReqs
    IdSpace = 2
    MaxFailures = 0
SPECIFICATION Spec
INVARIANT ResponseMatchesRequest
CHECK_DEADLOCK FALSE
