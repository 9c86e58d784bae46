\* Two workers and two pieces (queue capacity 4), two attempts a piece, one panic;
\* the endgame starts when one piece remains.  The timer need not fire.
CONSTANTS
    w1 = w1
    w2 = w2
    Workers = {w1, w2}
    NumPieces = 2
    MaxPieceAttempts = 2
    EndgameThreshold = 1
    MaxPanics = 1
SPECIFICATION FairSpec
INVARIANTS
    
    AccountingExact
    CompletedIsOnDisk
    IncompleteNotLost
    SingleCopyBeforeEndgame
    ReturnIsFinal
PROPERTIES
    KeepsPromise
    
    CancelReturns
