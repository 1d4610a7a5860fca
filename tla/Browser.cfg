SPECIFICATION Spec
CONSTANTS
    Path <- Paths
    FolderName = {"s"}
    Sort = {"name", "size"}
    Starts <- TheStarts
    Enabled = {"fail", "lose", "elsewhere", "upload"}
    MaxActs = 4
INVARIANTS QuietListIsTrue SelectionIsInFolder
CHECK_DEADLOCK FALSE
CONSTRAINT Focus
