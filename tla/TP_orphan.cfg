CONSTANTS
    r1 = r1
    r2 = r2
    Request = {r1, r2}
    Paths = {}
    Uploads = {}
    Rejected = {}
    Messages <- TwoAndOne
    MaxPending = 3
    MaxRetransmit = 1
SPECIFICATION FairSpec
PROPERTY SendersEnd
CHECK_DEADLOCK FALSE
