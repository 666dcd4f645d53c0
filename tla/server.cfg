\* The server's smaller components, one in each behaviour.
SPECIFICATION ServerSpec
SYMMETRY MCSymmetry
CHECK_DEADLOCK FALSE
CONSTANTS
    v1 = v1
    NoVideo = NoVideo
    Videos = {v1, v2}
    Slots = {s1, s2}
    Names = {adm, bob}
    AdminName = adm
    Passwords = {p1, p2}
    AdminPassword = p1
    LoginLife = 1
    StreamLife = 2
    MaxTime = 1
    MaxTokens = 2
    Streamed = {v1}
    NoUser = NoUser
    NoToken = NoToken
    NoName = NoName
    Length = 1
    MaxHeartbeatDelta = 1
    MaxSeeks = 1
    MaxReports = 3
    Viewers = {u}
    Tags = {t}
    Categories = {"genre", "x"}
    Days = {d}
    MaxPicks = 2
    Sources = {a}
    Mounts = {m, x}
    Prefixed = {m}
    Paths = {f}
    Mp4Paths = {}
    Deleters = {admin}
    NoSource = NoSource
    NoRecord = NoRecord
    NoItem = NoItem
    Objects = {o}
    Expiry = 3
    Leeway = 2
    MaxDelay = 1
    LastTick = 6
    NoEntry = NoEntry
    Scrapers <- MCScrapers
    Codes = {c}
    NoCode = NoCode
    Contents = {i}
    NoKey = NoKey
    Callers = {s}
    Batch = Batch
    FormerSources = {}
    PathKinds = {"cover"}
    Legacy = 1
    MaxSuggestions = 2
    Target = 6
    ShortTail = 2
    Backoff = 2
    ReadMargin = 1
    MaxGap = 3
    Longest = 8
    LostRows = 2
INVARIANTS
    AnAdminCanLogIn CreatedOnce DisabledUsersStayOut AccessEnds
    WatchTimeIsPlayed AnswersBalance RowsNameStoredObjects ServedUrlsStillWork
    StagedImagesAreStored SegmentsTileTheVideo
PROPERTIES AppliedOnlyWhilePending
