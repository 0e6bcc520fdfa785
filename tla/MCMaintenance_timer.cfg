\* Two previews: one whose removal keeps failing must not keep the other.  What a crash
\* leaves here, a failed save leaves too.
CONSTANTS
    Previews = {p1, p2}
    Stagings = {}
    Productions = {}
    BackupCommands = {}
    PreviewLimit = 2
    MaxGeneration = 1
    MaxCrashes = 0
    ComposeOutlives = FALSE
    NoInstance = NoInstance
SPECIFICATION FairSpec
INVARIANT BatchStillReclaimable
PROPERTIES UnfinishedResolved DeletionCompletes
VIEW AllButLive
