CONSTANTS
    Previews = {p1}
    Stagings = {}
    Productions = {}
    BackupCommands = {}
    PreviewLimit = 1
    MaxGeneration = 2
    MaxCrashes = 1
    ComposeOutlives = FALSE
    NoInstance = NoInstance
SPECIFICATION FairSpec
PROPERTIES DeletingReclaimed
