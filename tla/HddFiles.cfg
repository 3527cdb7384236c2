SPECIFICATION Spec
CONSTANTS
    Folder = {A, B}
    Id = {c1, c2}
    MaxVersion = 2
    MaxEnds = 1
    MaxFaults = 1
    Stale = FALSE
    SlowUnlink = FALSE
INVARIANTS LiveFileKept 
 
CHECK_DEADLOCK FALSE
