\* Two runs of vpsctl, three saves, two kills or losses of power in the middle of a save.
CONSTANTS
    Operations = {r1, r2}
    NoOperation = NoOperation
    NothingLoaded = NothingLoaded
    MaxWrites = 3
    MaxCuts = 2
SPECIFICATION FairSpec
INVARIANTS OneRunWorks NeverTorn LeftoversFromCuts
PROPERTIES ImplementsStoredDocument NoLostUpdate WaitersAnswered
