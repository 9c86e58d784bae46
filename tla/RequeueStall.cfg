CONSTANTS
    w1 = w1
    w2 = w2
    Workers = {w1, w2}
    NumPieces = 2
    MaxPieceAttempts = 1
    EndgameThreshold = 1
    MaxPanics = 0
SPECIFICATION Spec
INVARIANT RequeueGoesThrough
