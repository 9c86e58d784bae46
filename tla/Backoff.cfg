\* One peer: nothing relates two of them.
CONSTANTS
    p = p
    Peers = {p}
    refused = refused
    hash = hash
    choked = choked
    io = io
    NoClass = NoClass
    HashMismatch = hash
    Classes <- MCClasses
    Base <- MCBase
    QuarantineAfter <- MCAfter
    QuarantinePeriod <- MCPeriod
    MaxBackoff <- MCMax
    MaxShift = 2
    Factor <- MCFactor
    MaxFails = 7
    Horizon = 10
SPECIFICATION Spec
INVARIANT CorruptRare
PROPERTY RestKept
