\* Two peers, one connector, two workers and three pieces.
SPECIFICATION FairSpec
CONSTANTS
    Peers = {a, b}
    Connectors = {c1}
    Workers = {w1, w2}
    Pieces = {p1, p2, p3}
    PoolSize = 1
    MaxPerSession = 2
    MaxPieceAttempts = 1
    EndgameThreshold = 1
    NoPeer = NoPeer
    NoPiece = NoPiece
INVARIANTS OneOwner NoHoldAndWait
PROPERTIES  ShutdownCompletes
