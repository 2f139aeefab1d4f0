\* Two callers on one key whose expiration updates may arrive out of order.
CONSTANTS k1=k1 k2=k2 p1=p1 p2=p2 NoExp=NoExp Absent=Absent
Keys<-MCKeys1 Procs<-MCProcs2 ExpTimes<-MCExpTimes
MaxTime=2 MaxOps=2 NumWidth=1 SetValues<-MCSetValues SetChecks<-MCChecksNone SetKeeps<-MCKeepsNo
SPECIFICATION Spec
PROPERTY ExpiredEventuallyRemoved
CHECK_DEADLOCK FALSE
