\* Three nodes of which two are seeds, two queries a round and a list of two, two
\* lookups; three peers of which one is honest, two workers, a dictionary of two
\* pieces.
CONSTANTS
    Nodes = {1, 2, 3}
    NumSeeds = 2
    Alpha = 2
    MaxCandidates = 2
    MaxPeers = 2
    MaxAnswer = 1
    h = h
    b = b
    c = c
    Peers = {h, b, c}
    Honest = {h}
    NoPeer = NoPeer
    v = v
    w = w
    Workers = {v, w}
    MetaPieces = 2
    MaxSkip = 2
    FewPeers = 2
    DHTRounds = 2
SPECIFICATION FairSpec
INVARIANTS
    ClosestKept
    NoPeerForgotten
    MismatchDeserved
PROPERTIES
    AskedOnce
    
