\* Two Jobs, of the page's kind or another, and a socket that drops once.
SPECIFICATION SystemSpec
CONSTANTS
    Kinds = {import, backfill}
    QuietKinds = {}
    RecentKinds = {backfill}
    MaxJobs = 2
    MaxItems = 1
    NoJob = NoJob
    Mine = import
    MaxDrops = 1
    NoView = NoView
CHECK_DEADLOCK FALSE
INVARIANTS ShowsSeenEnd FinalCountsAgree
PROPERTIES EndIsFinal
