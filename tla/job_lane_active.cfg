\* The Media Lane: Imports and Backfills share it.
SPECIFICATION Spec
CONSTANTS
    Kinds = {import, backfill}
    QuietKinds = {}
    RecentKinds = {backfill}
    MaxJobs = 2
    MaxItems = 1
    NoJob = NoJob
CHECK_DEADLOCK FALSE
INVARIANTS ActiveShowsLatestOfKind
