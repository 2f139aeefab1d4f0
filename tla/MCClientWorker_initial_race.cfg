\* The initial request of a connection is sent before it is inserted.
CONSTANTS
    Reqs <- MCReqs
    IdSpace = 4
    MaxFailures = 0
SPECIFICATION Spec
INVARIANT ReaderNeverPanics
CHECK_DEADLOCK FALSE
