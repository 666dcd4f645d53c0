\* A Video, two plays and a Job; everything may fail for a while.
SPECIFICATION FairSpec
CONSTANTS
    Plays = {p1, p2}
    Videos = {v1}
    Probes = {b1, b2}
    Lane = Lane
    Faults = TRUE
    NoVideo = NoVideo
INVARIANTS OneBackgroundProbe InflightIsRunning IndexedIsServed CooldownStopsNewPlays
PROPERTIES EventuallyIndexed
