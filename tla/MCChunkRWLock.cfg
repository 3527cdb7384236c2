SPECIFICATION FairSpec
CONSTANTS
    Threads = {t1, t2, t3}
    Chunks = {k1, k2}
    Blocks = {b1, b2, b3}
    MaxFree = 0
    NULL = NULL
INVARIANT MutualExclusion
INVARIANT RecordKept
INVARIANT NoLostWakeup
INVARIANT BlocksDisjoint
PROPERTY WriterProgress
