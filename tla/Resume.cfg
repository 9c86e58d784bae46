SPECIFICATION FairSpec
CONSTANTS
    Pieces = {p1, p2}
    Files = {f1, f2}
    MaxFaults = 4
INVARIANTS ClaimIsBacked StateFileBacked CompleteIsDurable FinishedIsWhole SeedBacked
PROPERTIES ProgressKept RerunsFinish
