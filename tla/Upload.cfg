SPECIFICATION FairUpload
CONSTANTS
    Peers = {a, b}
    MaxUnchoked = 1
    OptimisticInterval = 2
    MaxTotal = 2
    NoPeer = NoPeer
INVARIANTS SlotsCapped LateServeBounded
PROPERTIES SlotTold
