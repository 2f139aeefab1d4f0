\* Three callers on a network that never fails; ids are never reused.
CONSTANTS
    Reqs <- MCReqs
    IdSpace = 4
    MaxFailures = 0
SPECIFICATION Spec
PROPERTY EveryRequestAnswered
CHECK_DEADLOCK FALSE
