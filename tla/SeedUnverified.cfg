SPECIFICATION Spec
CONSTANTS
    Pieces = {p1, p2}
    Files = {f1, f2}
    MaxFaults = 3
SYMMETRY Symmetry
INVARIANTS SeedVerified
