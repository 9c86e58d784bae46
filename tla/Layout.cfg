\* One of the three peers is not asked.  Pieces 7 and 8 are in different bytes.
CONSTANTS
    p = p
    q = q
    r = r
    Peers = {p, q, r}
    ProbeLimit = 2
    Telling = {0, 7, 8}
    Metainfos <- MCMetainfos
    Blank = Blank
SPECIFICATION Spec
INVARIANTS InPlace RarestFirst
