\* Two concurrent callers, the expiration task and the loader.
CONSTANTS
    k1 = k1
    k2 = k2
    p1 = p1
    p2 = p2
    NoExp = NoExp
    Absent = Absent
    Keys <- MCKeys
    Procs <- MCProcs2
    ExpTimes <- MCExpTimes
    MaxTime = 2
    MaxOps = 2
    NumWidth = 1
    SetValues <- MCSetValues
    SetChecks <- MCChecksNone
    SetKeeps <- MCKeepsAll
SPECIFICATION Spec
SYMMETRY MCSymmetry
INVARIANT TypeOK
INVARIANT ExpirationIndexConsistent
PROPERTY ExpirerLeavesNoDueKey
PROPERTY NumericUpdateAtomic
CHECK_DEADLOCK FALSE
