SPECIFICATION FairSpec
CONSTANTS
    Peers = {a, b, c, d}
    MaxUnchoked = 1
    OptimisticInterval = 2
    MaxTotal = 1
    NoPeer = NoPeer
PROPERTIES OptimisticExplores
