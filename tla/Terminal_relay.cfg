SPECIFICATION Spec
CONSTANTS
    Browsers = {b1, b2}
    Ptys = {p1}
    NoPty = NoPty
    NoStream = NoStream
    Streams = {s1, s2}
    Cap = 1
    MaxFaults = 1
INVARIANTS
    TypeOK
    SettledAgrees
    OwnsLivePtys
SYMMETRY MCSymmetry
CONSTRAINT MCBound
