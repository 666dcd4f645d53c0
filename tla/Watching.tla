------------------------------ MODULE Watching ------------------------------
(***************************************************************************)
(* One Playback Session: the player page that listens to a media element   *)
(* and reports what was watched, and the server that stores the reports as *)
(* Watch History, a Watch Session and Playback Telemetry.                  *)
(*                                                                         *)
(* Positions and playing time are in half seconds, so that the page's      *)
(* Math.floor rounds.  Reports are fire-and-forget: each may be lost, and  *)
(* they arrive in any order.  The media element announces a seek with an   *)
(* event of its own, which comes after the position has moved.             *)
(***************************************************************************)
EXTENDS Catalogue, Bags

CONSTANTS Length,            \* videos.duration_seconds
          MaxHeartbeatDelta, \* seconds one heartbeat may count, on both sides
          MaxSeeks,          \* bound: moves of the position that are not playback
          MaxReports         \* bound: reports on their way or being saved at a time

ASSUME WatchingAssumption ==
    /\ Length \in Nat /\ MaxHeartbeatDelta \in Nat
    /\ MaxSeeks \in Nat /\ MaxReports \in Nat

VARIABLES
    media,    \* the element: its position, and whether its last seek is announced
    page,     \* the closure of startPlaybackSession
    transit,  \* a bag of reports on their way
    saving,   \* SaveProgress calls between their two statements
    stored,   \* the rows: the Video, its history, session and telemetry
    watch     \* history: half seconds played, seeks, samples ahead of their seek's
              \* event, and the seconds of the heartbeats in transit

watchingVars == <<media, page, transit, saving, stored, watch>>

Positions == 0..(2 * Length)
Floor(p) == p \div 2
NoRow == [at |-> -1]

Report ==
    [kind : {"progress"}, seconds : Nat]
    \cup [kind : {"heartbeat"}, delta : Nat, seconds : Nat]
    \cup [kind : {"telemetry"}]

WatchingTypeOK ==
    /\ media \in [at : Positions, announced : BOOLEAN]
    /\ page \in [ended : BOOLEAN, telemetrySent : BOOLEAN, reported : Nat \cup {-1},
                 sample : Positions, pending : Nat, last : Positions]
    /\ IsABag(transit) /\ BagToSet(transit) \subseteq Report
    /\ saving \subseteq Nat
    /\ stored.video \in BOOLEAN
    /\ stored.history \in [at : Nat, completed : BOOLEAN] \cup {NoRow}
    /\ stored.session \in [watched : Nat, at : Nat] \cup {NoRow}
    /\ stored.telemetry \in BOOLEAN
    /\ watch \in [played : Nat, seeks : Nat, early : Nat, sending : Int]

WatchingInit ==
    /\ media = [at |-> 0, announced |-> TRUE]
    /\ page = [ended |-> FALSE, telemetrySent |-> FALSE, reported |-> -1,
               sample |-> 0, pending |-> 0, last |-> 0]
    /\ transit = EmptyBag
    /\ saving = {}
    /\ stored = [video |-> TRUE, history |-> NoRow, session |-> NoRow, telemetry |-> FALSE]
    /\ watch = [played |-> 0, seeks |-> 0, early |-> 0, sending |-> 0]

-----------------------------------------------------------------------------
\* The page.  A handler changes the closure and hands reports to the sender.

\* reportProgress: nothing when the second is the one last reported.
ReportProgress(p, at) ==
    IF Floor(at) = p.reported THEN [page |-> p, sent |-> EmptyBag]
    ELSE [page |-> [p EXCEPT !.reported = Floor(at)],
          sent |-> SetToBag({[kind |-> "progress", seconds |-> Floor(at)]})]

\* Mutant: the seconds that left are still pending.
FlushKeepsPending(p, at) ==
    IF p.pending <= 0 THEN [page |-> p, sent |-> EmptyBag]
    ELSE [page |-> p, sent |-> SetToBag({[kind |-> "heartbeat", delta |-> p.pending,
                                          seconds |-> Floor(at)]})]

\* flushHeartbeat: the pending seconds leave with the report.
FlushHeartbeat(p, at) ==
    IF p.pending <= 0 THEN [page |-> p, sent |-> EmptyBag]
    ELSE [page |-> [p EXCEPT !.pending = 0],
          sent |-> SetToBag({[kind |-> "heartbeat", delta |-> p.pending,
                              seconds |-> Floor(at)]})]

\* sendTelemetry: once, and never for a session that did not play.
SendTelemetry(p) ==
    IF p.telemetrySent \/ watch.played = 0 THEN [page |-> p, sent |-> EmptyBag]
    ELSE [page |-> [p EXCEPT !.telemetrySent = TRUE],
          sent |-> SetToBag({[kind |-> "telemetry"]})]

LeavingWatchReports(p) ==
    LET progress == IF Floor(p.last) >= 1 THEN ReportProgress(p, p.last)
                    ELSE [page |-> p, sent |-> EmptyBag]
        beat == FlushHeartbeat(progress.page, p.last)
    IN  [page |-> beat.page, sent |-> progress.sent (+) beat.sent]

Leave(p) ==
    LET reports == LeavingWatchReports(p)
        telemetry == SendTelemetry(reports.page)
    IN  [page |-> telemetry.page, sent |-> reports.sent (+) telemetry.sent]

Handled(result) ==
    /\ page' = result.page
    /\ transit' = transit (+) result.sent
    /\ BagCardinality(transit') + Cardinality(saving) <= MaxReports
    /\ UNCHANGED <<media, saving, stored>>

\* history: what the flush of p's pending seconds puts in transit.
Sending(p) == [watch EXCEPT !.sending = @ + p.pending]

\* clampDelta: the whole seconds between two samples, none backwards.
ClampDelta(from, to) ==
    LET delta == Floor(to) - Floor(from)
    IN  IF delta <= 0 THEN 0
        ELSE IF delta > MaxHeartbeatDelta THEN MaxHeartbeatDelta ELSE delta

\* onTimeUpdate: a throttled report, then the seconds since the last sample.
TimeUpdate ==
    /\ ~page.ended
    /\ \E throttled \in BOOLEAN :
         LET moved == [page EXCEPT !.last = media.at]
             report == IF throttled THEN [page |-> moved, sent |-> EmptyBag]
                       ELSE ReportProgress(moved, media.at)
         IN  Handled([page |-> [report.page EXCEPT
                                  !.pending = @ + ClampDelta(page.sample, media.at),
                                  !.sample = media.at],
                      sent |-> report.sent])
    /\ watch' = [watch EXCEPT !.early =
                    @ + IF media.announced \/ page.sample = media.at THEN 0 ELSE 1]

\* onSeeking: measure from the target.
Seeking ==
    /\ ~media.announced
    /\ media' = [media EXCEPT !.announced = TRUE]
    /\ page' = IF page.ended THEN page
               ELSE [page EXCEPT !.last = media.at, !.sample = media.at]
    /\ UNCHANGED <<transit, saving, stored, watch>>

Pause ==
    /\ ~page.ended
    /\ LET moved == [page EXCEPT !.last = media.at]
       IN  Handled(IF Floor(media.at) < 1 THEN [page |-> moved, sent |-> EmptyBag]
                   ELSE ReportProgress(moved, media.at))
    /\ UNCHANGED watch

HeartbeatTimer ==
    /\ ~page.ended
    /\ Handled(FlushHeartbeat(page, media.at))
    /\ watch' = Sending(page)

Hidden ==
    /\ ~page.ended
    /\ Handled(LeavingWatchReports(page))
    /\ watch' = Sending(page)

\* pagehide leaves without ending: the page may come back from the cache.
PageHide ==
    /\ ~page.ended
    /\ Handled(Leave(page))
    /\ watch' = Sending(page)

End ==
    /\ ~page.ended
    /\ Handled(Leave([page EXCEPT !.ended = TRUE]))
    /\ watch' = Sending(page)

-----------------------------------------------------------------------------
\* The media element and the Stream Source.

Play ==
    /\ media.announced /\ media.at < 2 * Length
    /\ media' = [media EXCEPT !.at = @ + 1]
    /\ watch' = [watch EXCEPT !.played = @ + 1]
    /\ UNCHANGED <<page, transit, saving, stored>>

Moved == [watch EXCEPT !.seeks = @ + 1]

Seek ==
    /\ watch.seeks < MaxSeeks
    /\ \E p \in Positions : media' = [at |-> p, announced |-> FALSE]
    /\ watch' = Moved
    /\ UNCHANGED <<page, transit, saving, stored>>

\* The Stream Source sets the position and tells the session (positionSet).
PositionSet ==
    /\ watch.seeks < MaxSeeks
    /\ \E p \in Positions :
         /\ media' = [at |-> p, announced |-> FALSE]
         /\ page' = IF page.ended THEN page ELSE [page EXCEPT !.last = p, !.sample = p]
    /\ watch' = Moved
    /\ UNCHANGED <<transit, saving, stored>>

\* "Mark as watched" reports the whole length.
MarkWatched ==
    /\ Handled([page |-> page,
                sent |-> SetToBag({[kind |-> "progress", seconds |-> Length]})])
    /\ UNCHANGED watch

-----------------------------------------------------------------------------
\* The server.

Arrive(r) == BagIn(r, transit) /\ transit' = transit (-) SetToBag({r})

\* history
Received(r) ==
    IF r.kind = "heartbeat" THEN [watch EXCEPT !.sending = @ - r.delta] ELSE watch

Lose ==
    /\ \E r \in BagToSet(transit) : Arrive(r) /\ watch' = Received(r)
    /\ UNCHANGED <<media, page, saving, stored>>

\* SaveProgress's first statement: a Video that is gone is not found.
GetVideoForProgress ==
    /\ \E r \in BagToSet(transit) :
         /\ r.kind = "progress"
         /\ Arrive(r)
         /\ saving' = IF stored.video THEN saving \cup {r.seconds} ELSE saving
    /\ UNCHANGED <<media, page, stored, watch>>

Completed(seconds) == Length > 0 /\ 10 * seconds >= 9 * Length

\* Its second: the last write wins.  It may fail, and the foreign key refuses a
\* deleted Video.
UpsertHistory ==
    /\ \E seconds \in saving :
         /\ saving' = saving \ {seconds}
         /\ \/ /\ stored.video
               /\ stored' = [stored EXCEPT !.history =
                               [at |-> seconds, completed |-> Completed(seconds)]]
            \/ UNCHANGED stored
    /\ UNCHANGED <<media, page, transit, watch>>

\* The one statement of a heartbeat: adds to the session's row or inserts it.
UpsertWatchSession(row, delta, at) ==
    IF row = NoRow THEN [watched |-> delta, at |-> at]
    ELSE [watched |-> row.watched + delta, at |-> IF at > row.at THEN at ELSE row.at]

RecordHeartbeat ==
    /\ \E r \in BagToSet(transit) :
         /\ r.kind = "heartbeat"
         /\ Arrive(r)
         /\ watch' = Received(r)
         /\ stored' = IF ~stored.video THEN stored
                      ELSE [stored EXCEPT !.session = UpsertWatchSession(@,
                              IF r.delta > MaxHeartbeatDelta THEN MaxHeartbeatDelta
                              ELSE r.delta, r.seconds)]
    /\ UNCHANGED <<media, page, saving>>

RecordTelemetry ==
    /\ \E r \in BagToSet(transit) :
         /\ r.kind = "telemetry"
         /\ Arrive(r)
         /\ stored' = IF ~stored.video THEN stored
                      ELSE [stored EXCEPT !.telemetry = TRUE]
    /\ UNCHANGED <<media, page, saving, watch>>

ClearHistory ==
    /\ stored.history # NoRow
    /\ stored' = [stored EXCEPT !.history = NoRow]
    /\ UNCHANGED <<media, page, transit, saving, watch>>

\* Every row about a Video goes with it (ON DELETE CASCADE).
WatchedVideoDeleted ==
    /\ stored.video
    /\ stored' = [video |-> FALSE, history |-> NoRow, session |-> NoRow, telemetry |-> FALSE]
    /\ UNCHANGED <<media, page, transit, saving, watch>>

WatchingNext ==
    \/ TimeUpdate \/ Seeking \/ Pause \/ HeartbeatTimer \/ Hidden \/ PageHide \/ End
    \/ Play \/ Seek \/ PositionSet \/ MarkWatched
    \/ Lose \/ GetVideoForProgress \/ UpsertHistory \/ RecordHeartbeat \/ RecordTelemetry
    \/ ClearHistory \/ WatchedVideoDeleted

WatchingSpec == WatchingInit /\ [][WatchingNext]_watchingVars

-----------------------------------------------------------------------------
\* The seconds a Watch Session holds, with the ones still to be added, were
\* played, whatever reports are lost or reordered and however the page leaves
\* and returns: beyond a rounding of one half second per move of the position
\* and one capped delta per sample that outran its seek's event.
WatchTimeIsPlayed ==
    LET watched == IF stored.session = NoRow THEN 0 ELSE stored.session.watched
    IN  2 * (watched + watch.sending + page.pending)
          <= watch.played + watch.seeks + 2 * MaxHeartbeatDelta * watch.early
=============================================================================
