CONSTANTS
    Process = {1, 2}
    Request <- Requests
    Kind <- Kinds_
    Target <- Targets
    Arg <- Args
    Server <- Servers
    Name <- Names
    Folder = {"d"}
    ZipName <- Zips
    Glued <- Glue
    Part <- Parts
    Tree <- Files
    MaxSolved = 3
    Absent = Absent
    Dir = Dir
    Archive = "archive"
    None = None
SPECIFICATION Spec
INVARIANTS TypeOK TouchesNamed ServesNamed AnswersTruly ArchivesRemoved
    ListsUntouched
CHECK_DEADLOCK FALSE
