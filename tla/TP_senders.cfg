CONSTANTS
    r1 = r1
    r2 = r2
    Request = {r1, r2}
    Paths = {r2}
    Uploads = {}
    Rejected = {r2}
    Messages <- TwoAndOne
    MaxPending = 1
    MaxRetransmit = 2
SPECIFICATION Spec
INVARIANTS TypeOK  RetransmitBound CongestionBound
    StopsAfterFailure
CHECK_DEADLOCK FALSE
