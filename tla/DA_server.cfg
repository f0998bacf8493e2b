CONSTANTS
    a = a
    b = b
    inbox = inbox
    NoPath = NoPath
    None = None
    Absent = Absent
    Old = Old
    Request = {a, b}
    Total <- Sizes
    Name <- Names
    Zipped = {b}
    Folder = {inbox}
    Existing <- Nowhere
    Overlap = TRUE
    MaxCopies = 2
SPECIFICATION FairSpec
INVARIANTS TypeOK WrittenInOrder FinishedWhole
PROPERTIES ImplementsTransfer Finishes
CHECK_DEADLOCK FALSE
