SPECIFICATION Spec
CONSTANTS
    Files = {"a.log", "c.bin"}
    Supported = {"a.log"}
    MaxLines = 2
    Entries = {"app", "lib", "so", "run", "list"}
    Dirs = {"app", "lib"}
    Below <- MCBelow
    Images <- MCImages
    Environments <- MCEnvironments
    Services <- MCServices
    MaxFaults = 2
    MaxRuns = 2
INVARIANTS
    TypeOK
    LinesKept
    CopiedOnce
    SyncedBeforeReboot
    AppsFollowImage
    ReadyToReboot
CHECK_DEADLOCK FALSE
