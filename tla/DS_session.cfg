CONSTANTS
    f = f
    docs = docs
    File = {f}
    Blocks <- Sizes
    Folder = {docs}
    LastToken = 3
    MaxEvents = 4
    None = None
    Base = Base
SPECIFICATION FairSpec
INVARIANTS TypeOK Delivered SavePathKept
 
CHECK_DEADLOCK FALSE
