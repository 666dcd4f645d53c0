\* One segment per Video, room for one.
SPECIFICATION Spec
CONSTANTS
    Requests = {r1, r2}
    Videos = {v1, v2}
    Segs = {s1}
    SegBytes <- MCSegBytes
    MaxBytes = 1
    IdleElapses = FALSE
    RemoveFails = FALSE
    NoRequest = NoRequest
    NoSegment = NoSegment
INVARIANTS ReturnedPathIsReady
