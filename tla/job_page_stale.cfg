\* Two Jobs, of the page's kind or another, and a socket that never drops.
SPECIFICATION FairSystemSpec
CONSTANTS
    Kinds = {import, backfill}
    QuietKinds = {}
    RecentKinds = {backfill}
    MaxJobs = 2
    MaxItems = 1
    NoJob = NoJob
    Mine = import
    MaxDrops = 0
    NoView = NoView
CHECK_DEADLOCK FALSE
PROPERTIES ViewSelfCorrects
