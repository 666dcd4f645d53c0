\* os.RemoveAll may leave any of the files behind.
SPECIFICATION FairSpec
CONSTANTS
    Requests = {r1, r2}
    Videos = {v1, v2}
    Segs = {s1, s2}
    SegBytes <- MCSegBytes
    MaxBytes = 2
    IdleElapses = TRUE
    RemoveFails = TRUE
    NoRequest = NoRequest
    NoSegment = NoSegment
INVARIANTS NeverOvercounts
PROPERTIES ImplementsStore EveryWaitEnds
