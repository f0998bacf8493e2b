CONSTANTS
    a = a
    b = b
    inbox = inbox
    NoPath = NoPath
    None = None
    Absent = Absent
    Old = Old
    Request = {a}
    Total <- Sizes
    Name <- Names
    Zipped = {}
    Folder = {inbox}
    Existing <- OldInInbox
    Overlap = FALSE
    MaxCopies = 1
SPECIFICATION Spec
INVARIANT ExactFile
CHECK_DEADLOCK FALSE
