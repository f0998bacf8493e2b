CONSTANTS
    t1 = t1
    t2 = t2
    u = u
    Dummy = Dummy
    Task = {t1}
    Internal = {u}
    Heavy = {t1}
    Raising = {u}
    Exiter = {"cli"}
    MaxQueue = 2
    MaxCopies = 2
    MaxWorkers = 2
SPECIFICATION FairSpec
INVARIANTS TypeOK SolvedByOne StoppedIsUnlisted
   
CHECK_DEADLOCK FALSE
