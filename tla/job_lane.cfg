\* Two Jobs of two kinds, one silent about each item done as Enrichment is.
SPECIFICATION FairSpec
CONSTANTS
    Kinds = {reporting, quiet}
    QuietKinds = {quiet}
    RecentKinds = {quiet}
    MaxJobs = 2
    MaxItems = 3
    NoJob = NoJob
CHECK_DEADLOCK FALSE
INVARIANTS FinishedIffFree CountsAgree CompleteIsLast ReportIsTheRecord CancelStopsSoon
PROPERTIES ImplementsLane EveryJobEnds
