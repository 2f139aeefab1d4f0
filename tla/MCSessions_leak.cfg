\* Two holders, two sessions, two subscribers.
CONSTANTS
    h1 = h1  h2 = h2
    NoHandle = NoHandle  Anonymous = Anonymous
    Holders <- MCHolders
    MaxSessions = 2
    MaxSubs = 2
SPECIFICATION Spec
PROPERTY SessionRemovedWithLastHandle
\* Once every id is used and the instance is torn down, nothing is left to do.
CHECK_DEADLOCK FALSE
