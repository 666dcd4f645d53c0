\* Three requests, three Videos of two segments, room for three of the six.
SPECIFICATION Spec
CONSTANTS
    Requests = {r1, r2, r3}
    Videos = {v1, v2, v3}
    Segs = {s1, s2}
    SegBytes <- MCSegBytes
    MaxBytes = 3
    IdleElapses = TRUE
    RemoveFails = FALSE
    NoRequest = NoRequest
    NoSegment = NoSegment
SYMMETRY MCSymmetry
INVARIANTS OneProducer WaitersHaveAProducer ProducerKeepsItsDirectory AccountMatchesDisk
PROPERTIES CapacityRestored EvictsLeastRecent
