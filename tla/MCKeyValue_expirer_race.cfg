\* A set without expiration racing the expirer and the loader (one caller, two keys).
CONSTANTS k1=k1 k2=k2 p1=p1 p2=p2 NoExp=NoExp Absent=Absent
Keys<-MCKeys Procs<-MCProcs1 ExpTimes<-MCExpTimes
MaxTime=2 MaxOps=2 NumWidth=1 SetValues<-MCSetValues SetChecks<-MCChecksNone SetKeeps<-MCKeepsNo
SPECIFICATION Spec
PROPERTY ExpirerRemovesOnlyExpired
CHECK_DEADLOCK FALSE
