\* A set with every key check and keep option retrying its compare-and-swap.
CONSTANTS k1=k1 k2=k2 p1=p1 p2=p2 NoExp=NoExp Absent=Absent
Keys<-MCKeys Procs<-MCProcs1 ExpTimes<-MCExpTimes
MaxTime=2 MaxOps=2 NumWidth=1 SetValues<-MCSetValues SetChecks<-MCChecksAll SetKeeps<-MCKeepsAll
SPECIFICATION Spec
INVARIANT SetOutcomeMatchesWrite
CHECK_DEADLOCK FALSE
