CONSTANTS
    r1 = r1
    r2 = r2
    Request = {r1}
    Paths = {}
    Uploads = {r1}
    Rejected = {r1}
    Messages <- TwoAndOne
    MaxPending = 2
    MaxRetransmit = 1
SPECIFICATION FairSpec
INVARIANTS Tracked LastBlockBarrier ReturnAfterUpload
 
CHECK_DEADLOCK FALSE
