\* Answers of up to two chunks, of which one is accepted.
CONSTANTS
    MaxBody = 1
    MaxChunks = 2
SPECIFICATION FairSpec
INVARIANTS CutNeverOpens ProxiedOnlyClaimed ReadyOnlyClaimed
PROPERTIES GuardOpens GuardHolds
