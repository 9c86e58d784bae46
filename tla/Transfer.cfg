SPECIFICATION FairSpec
CONSTANTS
    Pieces = {p1, p2}
    NumBlocks = 2
    MinInflight = 1
    DefaultInflight = 1
    MaxInflight = 2
    SetupReads = 2
    MaxWire = 1
    NoPiece = NoPiece
    Nothing = Nothing
    Junk = Junk
    Short = Short
INVARIANTS BlocksAccounted NoFalseMismatch CancelSeenSoon
PROPERTIES SetupEnds FetchEnds
