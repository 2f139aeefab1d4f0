\* Two callers, two documents, a view whose code may have changed since the
\* last process, one call each and one commit during the calls.  One worker: the
\* scanner holds it while it awaits the mapper it enqueued.
CONSTANTS
    c1 = c1  c2 = c2  d1 = d1  d2 = d2
    NoEntry = NoEntry  NoStatus = NoStatus  NoVersion = NoVersion
    NoResult = NoResult
    Callers <- MCCallers
    Docs <- MCDocs
    Versions <- MCVersions
    CurVersion = 2
    InitTx = 2
    MaxTx = 3
    MaxCalls = 1
    WorkerCount = 1
SPECIFICATION Spec
PROPERTY EveryCallReturns
CHECK_DEADLOCK FALSE
