SPECIFICATION Spec
CONSTANTS
    a1 = a1
    a2 = a2
    b = b
    S1 = S1
    S2 = S2
    Owner = {a1, a2, b}
    Session = {S1, S2}
    sessionOf <- MCSessionOf
    PosixOwner = {a1, b}
    Req = {1, 2}
    MaxQueue = 2
    Length = 3
    Beyond = FALSE
    MODE = {"CORRECT", "BSD", "LINUX"}
INVARIANTS Exclusion RangesExact WaitersKept ReplayMatches
PROPERTY NoStarvation
