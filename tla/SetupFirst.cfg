SPECIFICATION Spec
CONSTANTS
    Folder <- Folders
    File <- TheFiles
    Fresh = "n"
    Mount <- TheMount
    Visits <- Root
    Servers <- TheServers
    Scope <- TheScope
    Enabled = {}
    MaxEntries = 2
    MaxActs = 0
INVARIANT FirstVisitIsSetup
CHECK_DEADLOCK FALSE
