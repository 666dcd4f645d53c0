\* The source shows another Cover the second time.
SPECIFICATION EnrichmentSpec
CHECK_DEADLOCK FALSE
CONSTANTS
    Videos = {v1}
    NoVideo = NoVideo
    Slots = {s1}
    Scrapers <- MCScrapers
    Codes = {c}
    NoCode = NoCode
    Contents = {i1, i2}
    NoKey = NoKey
    Callers = {s}
    Batch = Batch
    FormerSources = {}
    PathKinds = {}
    Legacy = 0
    MaxSuggestions = 2
PROPERTIES StagingKeepsAcceptedCovers
