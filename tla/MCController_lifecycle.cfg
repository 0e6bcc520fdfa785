\* A preview next to a staging instance that is backed up before its updates and retired;
\* backups outlive crashes, and the one crash comes anywhere, also inside a publish.
CONSTANTS
    Previews = {p1}
    Stagings = {s1}
    Productions = {}
    BackupCommands = {s1}
    PreviewLimit = 1
    MaxGeneration = 3
    MaxCrashes = 1
    ComposeOutlives = FALSE
    NoInstance = NoInstance
SPECIFICATION Spec
INVARIANTS ResourcesTracked ReadyServed RetiredInert FileRoutesStand
PROPERTIES RetirementIsFinal BackupBeforeUpdate
CONSTRAINT FewGenerations
VIEW AllButLive
