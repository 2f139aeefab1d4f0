\* Two callers, two documents, a view whose code may have changed since the
\* last process, one call each and one commit during the calls.  Two workers: the
\* scanner and the mapper of the key each have one.
CONSTANTS
    c1 = c1  c2 = c2  d1 = d1  d2 = d2
    NoEntry = NoEntry  NoStatus = NoStatus  NoVersion = NoVersion
    NoResult = NoResult
    Callers <- MCCallers
    Docs <- MCDocs
    Versions <- MCVersions
    CurVersion = 2
    InitTx = 2
    MaxTx = 3
    MaxCalls = 1
    WorkerCount = 2
SPECIFICATION Spec
INVARIANT TypeOK
INVARIANT IndexedWatermarkSound
PROPERTY ViewFreshnessSpec
PROPERTY EveryCallReturns
CHECK_DEADLOCK FALSE
