\* One preview, whose delivery is cut between Caddy's load and the write of its file.
CONSTANTS
    Previews = {p1}
    Stagings = {}
    Productions = {}
    BackupCommands = {}
    PreviewLimit = 1
    MaxGeneration = 2
    MaxCrashes = 1
    ComposeOutlives = FALSE
    NoInstance = NoInstance
SPECIFICATION Spec
INVARIANTS WithdrawnBeforeRemoval
