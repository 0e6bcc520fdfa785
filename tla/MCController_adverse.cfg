\* Two previews compete for one slot, docker compose outlives a killed controller, and
\* publishes are cut short.  An instance with untracked containers blocks every admission
\* until its operator comes, so the system may stop.
CONSTANTS
    Previews = {p1, p2}
    Stagings = {}
    Productions = {}
    BackupCommands = {}
    PreviewLimit = 1
    MaxGeneration = 2
    MaxCrashes = 2
    ComposeOutlives = TRUE
    NoInstance = NoInstance
SPECIFICATION Spec
SYMMETRY PreviewSymmetry
INVARIANTS TypeOK SlotLimit NothingOutranksFence
PROPERTIES ImplementsLifecycle
CHECK_DEADLOCK FALSE
