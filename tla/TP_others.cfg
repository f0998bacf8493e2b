CONSTANTS
    r1 = r1
    r2 = r2
    Request = {r1, r2}
    Paths = {}
    Uploads = {}
    Rejected = {}
    Messages <- TwoAndOne
    MaxPending = 2
    MaxRetransmit = 1
SPECIFICATION Spec
INVARIANT OthersKept
CHECK_DEADLOCK FALSE
