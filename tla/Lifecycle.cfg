\* One tracker of the torrent and a public one, so that announcing takes two steps.
\* Two workers, so that reports overtake each other.
CONSTANTS
    own = own
    public = public
    v = v
    w = w
    Own = {own}
    Public = {public}
    Preferred = {public}
    MaxMagnet = 2
    DHT = DHT
    Pieces = 2
    Workers = {v, w}
    Rounds = 2
    FewPeers = 2
    TargetPeers = 3
    Idle = Idle
    Marked = Marked
SYMMETRY Symmetry
SPECIFICATION Spec
CHECK_DEADLOCK FALSE
INVARIANTS ClaimsBacked PrivateUnseen Farewell
