---------------------------- MODULE ViewerProofs ----------------------------
(***************************************************************************)
(* Watch time is played time, for a Video of any length, any number of     *)
(* seeks and reports, and any loss or reordering of them.  WatchInv keeps  *)
(* an account: twice the seconds counted, and the half seconds the next    *)
(* sample may still count (Slack), are within what was played.             *)
(*                                                                         *)
(* And what viewers and admins attach to a Video is what they were told,   *)
(* for any number of users, Tags, days and racing calls.  CurationInv says *)
(* so of each table, and that a Video has at most one live recommendation  *)
(* on a day, so that deleting it leaves none.                              *)
(***************************************************************************)
EXTENDS Watching, Curation, SequenceTheorems, TLAPS

Media == [at : Positions, announced : BOOLEAN]
Page == [ended : BOOLEAN, telemetrySent : BOOLEAN, reported : Nat \cup {-1},
         sample : Positions, pending : Nat, last : Positions]
Stored == [video : BOOLEAN, history : [at : Nat, completed : BOOLEAN] \cup {NoRow},
           session : [watched : Nat, at : Nat] \cup {NoRow}, telemetry : BOOLEAN]
Watch == [played : Nat, seeks : Nat, early : Nat, sending : Int]

Typed ==
    /\ media \in Media /\ page \in Page /\ BagToSet(transit) \subseteq Report
    /\ saving \subseteq Nat /\ stored \in Stored /\ watch \in Watch

Watched(row) == IF row = NoRow THEN 0 ELSE row.watched

\* What is counted, and what the next sample may count without more playing.
Counted == 2 * (Watched(stored.session) + watch.sending + page.pending)
Slack == IF page.ended THEN 0
         ELSE IF media.announced THEN media.at - 2 * Floor(page.sample) ELSE 1
Excused == 2 * MaxHeartbeatDelta * watch.early

WatchInv ==
    /\ Typed
    /\ media.announced /\ ~page.ended => page.sample <= media.at
    /\ Counted + Slack <= watch.played + watch.seeks + Excused

LEMMA Numbers ==
    /\ MaxHeartbeatDelta \in Nat /\ Length \in Nat
    /\ \A p \in Positions : p \in Nat /\ Floor(p) \in Nat /\ 2 * Floor(p) <= p /\ p <= 2 * Floor(p) + 1
    /\ \A p, q \in Positions : p <= q => Floor(p) <= Floor(q)
BY WatchingAssumption DEF Positions, Floor

LEMMA Clamped ==
    ASSUME NEW p \in Positions, NEW q \in Positions
    PROVE  /\ ClampDelta(p, q) \in Nat /\ ClampDelta(p, q) <= MaxHeartbeatDelta
           /\ p <= q => ClampDelta(p, q) <= Floor(q) - Floor(p)
           /\ p = q => ClampDelta(p, q) = 0
BY Numbers DEF ClampDelta

LEMMA WatchStart == WatchingInit => WatchInv
<1> SUFFICES ASSUME WatchingInit PROVE WatchInv
  OBVIOUS
<1>1. Typed
  BY WatchingAssumption DEF WatchingInit, Typed, Media, Page, Stored, Watch, Positions, EmptyBag,
     SetToBag, BagToSet
<1>2. Counted = 0 /\ Slack = 0 /\ Excused = 0
  BY WatchingAssumption DEF WatchingInit, Counted, Slack, Excused, Watched, NoRow, Floor
<1> QED
  BY <1>1, <1>2 DEF WatchInv, WatchingInit

\* The reports a handler sends are reports, and the seconds it flushes leave.
LEMMA Reporting ==
    ASSUME NEW p \in Page, NEW at \in Positions
    PROVE  LET r == ReportProgress(p, at)
           IN  /\ r.page \in Page /\ DOMAIN r.sent \subseteq Report
               /\ r.page.ended = p.ended /\ r.page.sample = p.sample /\ r.page.pending = p.pending
<1>1. Floor(at) \in Nat
  BY Numbers
<1>2. CASE Floor(at) = p.reported
  BY <1>2 DEF ReportProgress, EmptyBag, SetToBag
<1>3. CASE Floor(at) # p.reported
  <2> DEFINE q == [p EXCEPT !.reported = Floor(at)]
             sent == SetToBag({[kind |-> "progress", seconds |-> Floor(at)]})
  <2>1. q \in Page /\ q.ended = p.ended /\ q.sample = p.sample /\ q.pending = p.pending
    BY <1>1 DEF Page
  <2>2. DOMAIN sent \subseteq Report
    BY <1>1 DEF SetToBag, Report
  <2>3. ReportProgress(p, at) = [page |-> q, sent |-> sent]
    BY <1>3 DEF ReportProgress
  <2> HIDE DEF q, sent
  <2> QED
    BY <2>1, <2>2, <2>3
<1> QED
  BY <1>2, <1>3

LEMMA Flushing ==
    ASSUME NEW p \in Page, NEW at \in Positions
    PROVE  LET r == FlushHeartbeat(p, at)
           IN  /\ r.page \in Page /\ DOMAIN r.sent \subseteq Report
               /\ r.page.ended = p.ended /\ r.page.sample = p.sample /\ r.page.pending = 0
<1>1. Floor(at) \in Nat /\ p.pending \in Nat
  BY Numbers DEF Page
<1>2. CASE p.pending <= 0
  BY <1>1, <1>2 DEF FlushHeartbeat, EmptyBag, SetToBag
<1>3. CASE ~(p.pending <= 0)
  <2> DEFINE q == [p EXCEPT !.pending = 0]
             sent == SetToBag({[kind |-> "heartbeat", delta |-> p.pending, seconds |-> Floor(at)]})
  <2>1. q \in Page /\ q.ended = p.ended /\ q.sample = p.sample /\ q.pending = 0
    BY DEF Page
  <2>2. DOMAIN sent \subseteq Report
    BY <1>1 DEF SetToBag, Report
  <2>3. FlushHeartbeat(p, at) = [page |-> q, sent |-> sent]
    BY <1>3 DEF FlushHeartbeat
  <2> HIDE DEF q, sent
  <2> QED
    BY <2>1, <2>2, <2>3
<1> QED
  BY <1>2, <1>3

LEMMA Joined ==
    ASSUME NEW a, NEW b, DOMAIN a \subseteq Report, DOMAIN b \subseteq Report
    PROVE  DOMAIN (a (+) b) \subseteq Report
BY DEF (+)

LEMMA LeavingReports ==
    ASSUME NEW p \in Page
    PROVE  LET r == LeavingWatchReports(p)
           IN  /\ r.page \in Page /\ DOMAIN r.sent \subseteq Report
               /\ r.page.ended = p.ended /\ r.page.sample = p.sample /\ r.page.pending = 0
<1> DEFINE progress == IF Floor(p.last) >= 1 THEN ReportProgress(p, p.last)
                       ELSE [page |-> p, sent |-> EmptyBag]
           beat == FlushHeartbeat(progress.page, p.last)
<1>1. p.last \in Positions
  BY DEF Page
<1>2. /\ progress.page \in Page /\ DOMAIN progress.sent \subseteq Report
      /\ progress.page.ended = p.ended /\ progress.page.sample = p.sample
  BY <1>1, Reporting DEF EmptyBag, SetToBag
<1> HIDE DEF progress
<1>3. /\ beat.page \in Page /\ DOMAIN beat.sent \subseteq Report
      /\ beat.page.ended = p.ended /\ beat.page.sample = p.sample /\ beat.page.pending = 0
  BY <1>1, <1>2, Flushing
<1>4. LeavingWatchReports(p) = [page |-> beat.page, sent |-> progress.sent (+) beat.sent]
  BY DEF LeavingWatchReports, progress
<1> HIDE DEF beat
<1> QED
  BY <1>2, <1>3, <1>4, Joined

LEMMA Leaving ==
    ASSUME NEW p \in Page
    PROVE  LET r == Leave(p)
           IN  /\ r.page \in Page /\ DOMAIN r.sent \subseteq Report
               /\ r.page.ended = p.ended /\ r.page.sample = p.sample /\ r.page.pending = 0
<1> DEFINE reports == LeavingWatchReports(p)
           telemetry == SendTelemetry(reports.page)
<1>1. /\ reports.page \in Page /\ DOMAIN reports.sent \subseteq Report
      /\ reports.page.ended = p.ended /\ reports.page.sample = p.sample /\ reports.page.pending = 0
  BY LeavingReports
<1>2. Leave(p) = [page |-> telemetry.page, sent |-> reports.sent (+) telemetry.sent]
  BY DEF Leave
<1> HIDE DEF reports
<1>3. /\ telemetry.page \in Page /\ DOMAIN telemetry.sent \subseteq Report
      /\ telemetry.page.ended = p.ended /\ telemetry.page.sample = p.sample
      /\ telemetry.page.pending = 0
  <2> DEFINE p0 == reports.page
             q == [p0 EXCEPT !.telemetrySent = TRUE]
             sent == SetToBag({[kind |-> "telemetry"]})
  <2>1. /\ q \in Page /\ q.ended = p0.ended /\ q.sample = p0.sample /\ q.pending = p0.pending
        /\ DOMAIN sent \subseteq Report /\ DOMAIN EmptyBag \subseteq Report
    <3>1. q \in Page /\ q.ended = p0.ended /\ q.sample = p0.sample /\ q.pending = p0.pending
      BY <1>1 DEF Page
    <3>2. DOMAIN sent \subseteq Report /\ DOMAIN EmptyBag \subseteq Report
      BY DEF EmptyBag, SetToBag, Report
    <3> QED
      BY <3>1, <3>2
  <2>2. telemetry = [page |-> p0, sent |-> EmptyBag] \/ telemetry = [page |-> q, sent |-> sent]
    BY DEF SendTelemetry
  <2> HIDE DEF q, sent, telemetry
  <2> QED
    BY <1>1, <2>1, <2>2
<1> HIDE DEF telemetry
<1> QED
  BY <1>1, <1>2, <1>3, Joined

-----------------------------------------------------------------------------
\* A handler of the page that hands over its pending seconds, and keeps its
\* last sample; it may end the session.
LEMMA FlushedKeeps ==
    ASSUME WatchInv, NEW r, Handled(r), watch' = Sending(page),
           r.page \in Page, DOMAIN r.sent \subseteq Report,
           r.page.sample = page.sample, r.page.pending = 0,
           r.page.ended = page.ended \/ r.page.ended
    PROVE  WatchInv'
<1>1. /\ page' = r.page /\ UNCHANGED <<media, saving, stored>>
      /\ transit' = transit (+) r.sent
  BY DEF Handled
<1>2. DOMAIN transit' \subseteq Report
  BY <1>1, Joined DEF WatchInv, Typed, BagToSet
<1>3. watch \in Watch /\ page \in Page /\ media \in Media /\ page.pending \in Nat /\ watch.sending \in Int
  BY DEF WatchInv, Typed, Watch, Page
<1>4. /\ watch' \in Watch /\ watch'.played = watch.played /\ watch'.seeks = watch.seeks
      /\ watch'.early = watch.early /\ watch'.sending = watch.sending + page.pending
  BY <1>3 DEF Sending, Watch
<1>5. Typed'
  BY <1>1, <1>2, <1>4 DEF WatchInv, Typed, BagToSet
<1>6. Counted' = Counted
  <2>1. Watched(stored.session) \in Nat
    BY DEF WatchInv, Typed, Stored, Watched, NoRow
  <2> QED
    BY <1>1, <1>3, <1>4, <2>1 DEF Counted
<1>7. Slack' <= Slack /\ Slack' \in Int /\ Slack \in Int
  <2>1. /\ media.at \in Positions /\ page.sample \in Positions /\ page.ended \in BOOLEAN
        /\ media.announced \in BOOLEAN
    BY <1>3 DEF Media, Page
  <2>2. media.announced /\ ~page.ended => 2 * Floor(page.sample) <= media.at
    BY <2>1, Numbers DEF WatchInv
  <2> QED
    BY <1>1, <2>1, <2>2, Numbers DEF Slack
<1>8. Excused' = Excused /\ Excused \in Nat
  BY <1>3, <1>4, Numbers DEF Excused, Watch
<1>9. Counted \in Int /\ watch.played \in Nat /\ watch.seeks \in Nat
  BY <1>3 DEF WatchInv, Typed, Counted, Watched, Stored, Watch, NoRow
<1>10. (media.announced /\ ~page.ended => page.sample <= media.at)'
  BY <1>1 DEF WatchInv
<1> QED
  BY <1>4, <1>5, <1>6, <1>7, <1>8, <1>9, <1>10 DEF WatchInv

\* A handler that hands over no seconds, and keeps the last sample.
LEMMA ReportedKeeps ==
    ASSUME WatchInv, NEW r, Handled(r), UNCHANGED watch,
           r.page \in Page, DOMAIN r.sent \subseteq Report,
           r.page.sample = page.sample, r.page.pending = page.pending, r.page.ended = page.ended
    PROVE  WatchInv'
<1>1. /\ page' = r.page /\ UNCHANGED <<media, saving, stored>>
      /\ transit' = transit (+) r.sent
  BY DEF Handled
<1>2. DOMAIN transit' \subseteq Report
  BY <1>1, Joined DEF WatchInv, Typed, BagToSet
<1>3. Typed'
  BY <1>1, <1>2 DEF WatchInv, Typed, BagToSet
<1>4. Counted' = Counted /\ Slack' = Slack /\ Excused' = Excused
  BY <1>1 DEF Counted, Slack, Excused
<1> QED
  BY <1>1, <1>3, <1>4 DEF WatchInv

\* What the reports' loss and arrival keep: they only take from the account.
LEMMA ReceivedKeeps ==
    ASSUME WatchInv, UNCHANGED <<media, page>>, stored' \in Stored, saving' \subseteq Nat,
           DOMAIN transit' \subseteq DOMAIN transit, watch' \in Watch,
           watch'.played = watch.played, watch'.seeks = watch.seeks, watch'.early = watch.early,
           Watched(stored'.session) + watch'.sending <= Watched(stored.session) + watch.sending
    PROVE  WatchInv'
<1>1. Typed'
  BY DEF WatchInv, Typed, BagToSet
<1>2. Slack' = Slack /\ Excused' = Excused
  BY DEF Slack, Excused
<1>3. /\ media.at \in Nat /\ Floor(page.sample) \in Nat /\ page.pending \in Nat
      /\ watch.played \in Nat /\ watch.seeks \in Nat /\ watch.early \in Nat
      /\ watch.sending \in Int /\ watch'.sending \in Int
  BY Numbers DEF WatchInv, Typed, Media, Page, Watch
<1>4. Watched(stored.session) \in Nat /\ Watched(stored'.session) \in Nat
  BY DEF WatchInv, Typed, Stored, Watched, NoRow
<1>5. Counted' <= Counted /\ Counted \in Int /\ Counted' \in Int
  BY <1>3, <1>4 DEF Counted
<1>6. Slack \in Int /\ Excused \in Nat
  BY <1>3, Numbers DEF Slack, Excused
<1> QED
  BY <1>1, <1>2, <1>3, <1>5, <1>6 DEF WatchInv

LEMMA Taken ==
    ASSUME NEW r, Arrive(r)
    PROVE  DOMAIN transit' \subseteq DOMAIN transit
BY DEF Arrive, (-)

-----------------------------------------------------------------------------
\* The steps, one by one.

\* The numbers the account is about.
LEMMA Sizes ==
    ASSUME WatchInv
    PROVE  /\ media.at \in Positions /\ page.sample \in Positions /\ page.last \in Positions
           /\ media.announced \in BOOLEAN /\ page.ended \in BOOLEAN /\ page.pending \in Nat
           /\ watch.played \in Nat /\ watch.seeks \in Nat /\ watch.early \in Nat
           /\ watch.sending \in Int /\ Watched(stored.session) \in Nat
           /\ Counted \in Int /\ Slack \in Int /\ Slack >= 0 /\ Excused \in Nat
<1>1. /\ media.at \in Positions /\ page.sample \in Positions /\ page.last \in Positions
      /\ media.announced \in BOOLEAN /\ page.ended \in BOOLEAN /\ page.pending \in Nat
  BY DEF WatchInv, Typed, Media, Page
<1>2. /\ watch.played \in Nat /\ watch.seeks \in Nat /\ watch.early \in Nat /\ watch.sending \in Int
  BY DEF WatchInv, Typed, Watch
<1>3. Watched(stored.session) \in Nat
  BY DEF WatchInv, Typed, Stored, Watched, NoRow
<1>4. media.announced /\ ~page.ended => page.sample <= media.at
  BY DEF WatchInv
<1>5. Slack \in Int /\ Slack >= 0
  BY <1>1, <1>4, Numbers DEF Slack
<1>6. Counted \in Int
  BY <1>1, <1>2, <1>3 DEF Counted
<1>7. Excused \in Nat
  BY <1>2, Numbers DEF Excused
<1> QED
  BY <1>1, <1>2, <1>3, <1>5, <1>6, <1>7

LEMMA TimeUpdateKeeps == ASSUME WatchInv, TimeUpdate PROVE WatchInv'
<1> DEFINE moved == [page EXCEPT !.last = media.at]
           delta == ClampDelta(page.sample, media.at)
<1>1. moved \in Page /\ moved.ended = page.ended /\ moved.sample = page.sample /\ moved.pending = page.pending
  BY Sizes DEF WatchInv, Typed, Page
<1>2. delta \in Nat
  BY Sizes, Clamped
<1> PICK throttled \in BOOLEAN :
      LET report == IF throttled THEN [page |-> moved, sent |-> EmptyBag]
                    ELSE ReportProgress(moved, media.at)
      IN  Handled([page |-> [report.page EXCEPT !.pending = @ + delta, !.sample = media.at],
                   sent |-> report.sent])
  BY DEF TimeUpdate
<1> DEFINE report == IF throttled THEN [page |-> moved, sent |-> EmptyBag]
                     ELSE ReportProgress(moved, media.at)
           q == [report.page EXCEPT !.pending = @ + delta, !.sample = media.at]
           r == [page |-> q, sent |-> report.sent]
<1>3. /\ report.page \in Page /\ DOMAIN report.sent \subseteq Report
      /\ report.page.ended = page.ended /\ report.page.pending = page.pending
  <2> HIDE DEF moved
  <2>1. LET t == ReportProgress(moved, media.at)
        IN  /\ t.page \in Page /\ DOMAIN t.sent \subseteq Report
            /\ t.page.ended = page.ended /\ t.page.pending = page.pending
    BY <1>1, Sizes, Reporting
  <2> QED
    BY <1>1, <2>1 DEF EmptyBag, SetToBag
<1>4. Handled(r) /\ ~page.ended
  BY DEF TimeUpdate
<1> HIDE DEF report, delta
<1>5. /\ r.page \in Page /\ r.page.ended = page.ended /\ r.page.pending = page.pending + delta
      /\ r.page.sample = media.at /\ r.sent = report.sent
  <2> DEFINE n == report.page.pending + delta
             p == [report.page EXCEPT !.pending = n, !.sample = media.at]
  <2>1. n \in Nat /\ n = page.pending + delta /\ q = p
    BY <1>2, <1>3, Sizes
  <2> HIDE DEF n
  <2>2. p \in Page /\ p.ended = page.ended /\ p.pending = n /\ p.sample = media.at
    BY <1>3, <2>1, Sizes DEF Page
  <2> HIDE DEF p, q
  <2> QED
    BY <2>1, <2>2
<1> HIDE DEF r
<1>6. /\ page' = r.page /\ UNCHANGED <<media, saving, stored>> /\ transit' = transit (+) r.sent
  BY <1>4 DEF Handled
<1>7. DOMAIN transit' \subseteq Report
  BY <1>3, <1>5, <1>6, Joined DEF WatchInv, Typed, BagToSet
<1>8. /\ watch' \in Watch /\ watch'.played = watch.played /\ watch'.seeks = watch.seeks
      /\ watch'.sending = watch.sending
      /\ watch'.early = watch.early + IF media.announced \/ page.sample = media.at THEN 0 ELSE 1
  <2> DEFINE more == IF media.announced \/ page.sample = media.at THEN 0 ELSE 1
  <2>1. watch' = [watch EXCEPT !.early = @ + more] /\ more \in Nat /\ watch \in Watch
    BY DEF TimeUpdate, WatchInv, Typed
  <2> HIDE DEF more
  <2>2. /\ watch' \in Watch /\ watch'.played = watch.played /\ watch'.seeks = watch.seeks
        /\ watch'.sending = watch.sending /\ watch'.early = watch.early + more
    BY <2>1 DEF Watch
  <2> QED
    BY <2>2 DEF more
<1>9. Typed'
  BY <1>5, <1>6, <1>7, <1>8 DEF WatchInv, Typed, BagToSet
<1>10. Counted' = Counted + 2 * delta
  BY <1>2, <1>5, <1>6, <1>8, Sizes DEF Counted
<1>11. CASE media.announced
  <2>1. page.sample <= media.at
    BY <1>4, <1>11 DEF WatchInv
  <2>2. delta <= Floor(media.at) - Floor(page.sample)
    BY <2>1, Sizes, Clamped DEF delta
  <2>3. Slack = media.at - 2 * Floor(page.sample) /\ Slack' = media.at - 2 * Floor(media.at)
    BY <1>4, <1>5, <1>6, <1>11 DEF Slack
  <2>4. watch'.early = watch.early
    BY <1>8, <1>11, Sizes
  <2>5. Excused' = Excused
    BY <2>4 DEF Excused
  <2>6. Floor(media.at) \in Nat /\ Floor(page.sample) \in Nat /\ media.at \in Nat
    BY Sizes, Numbers
  <2>7. Counted' + Slack' <= Counted + Slack
    BY <1>2, <1>10, <2>2, <2>3, <2>6, Sizes
  <2>8. (media.announced /\ ~page.ended => page.sample <= media.at)'
    BY <1>5, <1>6, <2>6
  <2>9. Counted + Slack <= watch.played + watch.seeks + Excused
    BY DEF WatchInv
  <2>10. Counted' + Slack' <= watch'.played + watch'.seeks + Excused'
    BY <1>2, <1>8, <1>10, <2>3, <2>5, <2>6, <2>7, <2>9, Sizes
  <2> QED
    BY <1>9, <2>8, <2>10 DEF WatchInv
<1>12. CASE ~media.announced
  <2>1. Slack = 1 /\ Slack' = 1
    BY <1>4, <1>5, <1>6, <1>12 DEF Slack
  <2>2. Excused' \in Nat /\ Excused' >= Excused + 2 * delta
    <3>1. CASE page.sample = media.at
      <4>1. delta = 0 /\ watch'.early = watch.early
        BY <1>8, <3>1, Sizes, Clamped DEF delta
      <4> QED
        BY <4>1, Sizes DEF Excused
    <3>2. CASE page.sample # media.at
      <4>1. delta <= MaxHeartbeatDelta /\ watch'.early = watch.early + 1
        BY <1>8, <1>12, <3>2, Sizes, Clamped DEF delta
      <4>2. 2 * MaxHeartbeatDelta * (watch.early + 1) = 2 * MaxHeartbeatDelta * watch.early + 2 * MaxHeartbeatDelta
        BY Sizes, Numbers
      <4>3. Excused' = Excused + 2 * MaxHeartbeatDelta
        BY <4>1, <4>2 DEF Excused
      <4> QED
        BY <1>2, <4>1, <4>3, Sizes, Numbers
    <3> QED
      BY <3>1, <3>2
  <2>3. Counted + Slack <= watch.played + watch.seeks + Excused
    BY DEF WatchInv
  <2>4. Counted' + Slack' <= watch'.played + watch'.seeks + Excused'
    BY <1>2, <1>8, <1>10, <2>1, <2>2, <2>3, Sizes
  <2> QED
    BY <1>6, <1>9, <1>12, <2>4 DEF WatchInv
<1> QED
  BY <1>11, <1>12, Sizes

\* A move of the position that is not playback.
LEMMA MovesKeep ==
    ASSUME WatchInv, Seek \/ PositionSet \/ Seeking \/ Play
    PROVE  WatchInv'
<1>1. UNCHANGED <<transit, saving, stored>>
  BY DEF Seek, PositionSet, Seeking, Play
<1>2. media \in Media /\ page \in Page /\ watch \in Watch
  BY DEF WatchInv, Typed
<1>3. CASE Seek \/ PositionSet
  <2> PICK p \in Positions :
        /\ media' = [at |-> p, announced |-> FALSE]
        /\ page' = page \/ page' = [page EXCEPT !.last = p, !.sample = p]
    BY <1>3 DEF Seek, PositionSet
  <2>1. media' \in Media /\ media'.announced = FALSE
    BY DEF Media
  <2>2. page' \in Page /\ page'.ended = page.ended /\ page'.pending = page.pending
    BY <1>2 DEF Page
  <2>3. watch' = [watch EXCEPT !.seeks = @ + 1]
    BY <1>3 DEF Seek, PositionSet, Moved
  <2>4. /\ watch' \in Watch /\ watch'.seeks = watch.seeks + 1 /\ watch'.played = watch.played
        /\ watch'.sending = watch.sending /\ watch'.early = watch.early
    BY <1>2, <2>3 DEF Watch
  <2>5. Counted' = Counted /\ Excused' = Excused
    BY <1>1, <2>2, <2>4 DEF Counted, Excused
  <2>6. Slack' <= 1 /\ Slack' \in Int
    BY <2>1, <2>2 DEF Slack
  <2>7. Typed'
    BY <1>1, <2>1, <2>2, <2>4 DEF WatchInv, Typed
  <2>8. Counted + Slack <= watch.played + watch.seeks + Excused
    BY DEF WatchInv
  <2>9. Counted' + Slack' <= watch'.played + watch'.seeks + Excused'
    BY <2>4, <2>5, <2>6, <2>8, Sizes
  <2> QED
    BY <2>1, <2>7, <2>9 DEF WatchInv
<1>4. CASE Seeking
  <2>1. /\ ~media.announced /\ media' = [media EXCEPT !.announced = TRUE] /\ UNCHANGED watch
        /\ page' = IF page.ended THEN page
                   ELSE [page EXCEPT !.last = media.at, !.sample = media.at]
    BY <1>4 DEF Seeking
  <2>2. media' \in Media /\ media'.announced /\ media'.at = media.at
    BY <1>2, <2>1 DEF Media
  <2>3. /\ page' \in Page /\ page'.ended = page.ended /\ page'.pending = page.pending
        /\ ~page.ended => page'.sample = media.at
    BY <1>2, <2>1, Sizes DEF Page
  <2>4. Counted' = Counted /\ Excused' = Excused
    BY <1>1, <2>1, <2>3 DEF Counted, Excused
  <2>5. Slack' <= Slack /\ Slack' \in Int
    BY <2>1, <2>2, <2>3, Sizes, Numbers DEF Slack
  <2>6. Typed'
    BY <1>1, <2>1, <2>2, <2>3 DEF WatchInv, Typed
  <2>7. Counted + Slack <= watch.played + watch.seeks + Excused
    BY DEF WatchInv
  <2>8. Counted' + Slack' <= watch'.played + watch'.seeks + Excused'
    BY <2>1, <2>4, <2>5, <2>7, Sizes
  <2>9. (media.announced /\ ~page.ended => page.sample <= media.at)'
    BY <2>2, <2>3, Sizes, Numbers
  <2> QED
    BY <2>6, <2>8, <2>9 DEF WatchInv
<1>5. CASE Play
  <2>1. /\ media.announced /\ media.at < 2 * Length /\ UNCHANGED page
        /\ media' = [media EXCEPT !.at = @ + 1] /\ watch' = [watch EXCEPT !.played = @ + 1]
    BY <1>5 DEF Play
  <2>2. media.at + 1 \in Positions
    BY <2>1, Sizes, Numbers DEF Positions
  <2>3. media' \in Media /\ media'.announced /\ media'.at = media.at + 1
    BY <1>2, <2>1, <2>2 DEF Media
  <2>4. /\ watch' \in Watch /\ watch'.seeks = watch.seeks /\ watch'.played = watch.played + 1
        /\ watch'.sending = watch.sending /\ watch'.early = watch.early
    BY <1>2, <2>1 DEF Watch
  <2>5. Counted' = Counted /\ Excused' = Excused
    BY <1>1, <2>1, <2>4 DEF Counted, Excused
  <2>6. Slack' <= Slack + 1 /\ Slack' \in Int
    BY <2>1, <2>3, Sizes, Numbers DEF Slack
  <2>7. Typed'
    BY <1>1, <2>1, <2>3, <2>4 DEF WatchInv, Typed
  <2>8. Counted + Slack <= watch.played + watch.seeks + Excused
    BY DEF WatchInv
  <2>9. Counted' + Slack' <= watch'.played + watch'.seeks + Excused'
    BY <2>4, <2>5, <2>6, <2>8, Sizes
  <2>10. (media.announced /\ ~page.ended => page.sample <= media.at)'
    BY <2>1, <2>3, Sizes, Numbers DEF WatchInv
  <2> QED
    BY <2>7, <2>9, <2>10 DEF WatchInv
<1> QED
  BY <1>3, <1>4, <1>5

\* What the page sends and the server receives.
LEMMA PageKeeps ==
    ASSUME WatchInv, Pause \/ HeartbeatTimer \/ Hidden \/ PageHide \/ End \/ MarkWatched
    PROVE  WatchInv'
<1>1. page \in Page /\ media.at \in Positions
  BY Sizes DEF WatchInv, Typed
<1>2. CASE Pause
  <2> DEFINE moved == [page EXCEPT !.last = media.at]
             r == IF Floor(media.at) < 1 THEN [page |-> moved, sent |-> EmptyBag]
                  ELSE ReportProgress(moved, media.at)
  <2>1. moved \in Page /\ moved.ended = page.ended /\ moved.sample = page.sample /\ moved.pending = page.pending
    BY <1>1 DEF Page
  <2>2. Handled(r) /\ UNCHANGED watch
    BY <1>2 DEF Pause
  <2> HIDE DEF moved
  <2>3. /\ r.page \in Page /\ DOMAIN r.sent \subseteq Report
        /\ r.page.sample = page.sample /\ r.page.pending = page.pending /\ r.page.ended = page.ended
    BY <1>1, <2>1, Reporting DEF EmptyBag, SetToBag
  <2> HIDE DEF r
  <2> QED
    BY <2>2, <2>3, ReportedKeeps
<1>3. CASE HeartbeatTimer
  BY <1>1, <1>3, Flushing, FlushedKeeps DEF HeartbeatTimer
<1>4. CASE Hidden
  BY <1>1, <1>4, LeavingReports, FlushedKeeps DEF Hidden
<1>5. CASE PageHide
  BY <1>1, <1>5, Leaving, FlushedKeeps DEF PageHide
<1>6. CASE End
  <2> DEFINE ended == [page EXCEPT !.ended = TRUE]
             r == Leave(ended)
  <2>1. ended \in Page /\ ended.ended /\ ended.sample = page.sample
    BY <1>1 DEF Page
  <2>2. Handled(r) /\ watch' = Sending(page)
    BY <1>6 DEF End
  <2> HIDE DEF ended
  <2>3. /\ r.page \in Page /\ DOMAIN r.sent \subseteq Report
        /\ r.page.sample = page.sample /\ r.page.pending = 0 /\ r.page.ended
    BY <2>1, Leaving
  <2> HIDE DEF r
  <2> QED
    BY <2>2, <2>3, FlushedKeeps
<1>7. CASE MarkWatched
  <2> DEFINE r == [page |-> page, sent |-> SetToBag({[kind |-> "progress", seconds |-> Length]})]
  <2>1. r.page = page /\ DOMAIN r.sent \subseteq Report
    BY Numbers DEF SetToBag, Report
  <2>2. Handled(r) /\ UNCHANGED watch
    BY <1>7 DEF MarkWatched
  <2> HIDE DEF r
  <2> QED
    BY <1>1, <2>1, <2>2, ReportedKeeps
<1> QED
  BY <1>2, <1>3, <1>4, <1>5, <1>6, <1>7

LEMMA ServerKeeps ==
    ASSUME WatchInv,
           \/ Lose \/ GetVideoForProgress \/ UpsertHistory \/ RecordHeartbeat \/ RecordTelemetry
           \/ ClearHistory \/ WatchedVideoDeleted
    PROVE  WatchInv'
<1>1. stored \in Stored /\ watch \in Watch /\ saving \subseteq Nat /\ BagToSet(transit) \subseteq Report
  BY DEF WatchInv, Typed
<1>2. UNCHANGED <<media, page>>
  BY DEF Lose, GetVideoForProgress, UpsertHistory, RecordHeartbeat, RecordTelemetry, ClearHistory,
         WatchedVideoDeleted
<1>3. ASSUME NEW r \in Report
      PROVE  /\ Received(r) \in Watch /\ Received(r).played = watch.played
             /\ Received(r).seeks = watch.seeks /\ Received(r).early = watch.early
             /\ r.kind # "heartbeat" => Received(r).sending = watch.sending
             /\ r.kind = "heartbeat" => /\ r.delta \in Nat /\ r.seconds \in Nat
                                        /\ Received(r).sending = watch.sending - r.delta
  BY <1>1 DEF Received, Watch, Report
<1>4. CASE Lose
  <2> PICK r \in BagToSet(transit) : Arrive(r) /\ watch' = Received(r)
    BY <1>4 DEF Lose
  <2>1. UNCHANGED <<saving, stored>>
    BY <1>4 DEF Lose
  <2>2. r \in Report
    BY <1>1
  <2>3. Watched(stored'.session) + watch'.sending <= Watched(stored.session) + watch.sending
    BY <1>3, <2>1, <2>2, Sizes
  <2> QED
    BY <1>1, <1>2, <1>3, <2>1, <2>2, <2>3, Taken, ReceivedKeeps
<1>5. CASE GetVideoForProgress
  <2> PICK r \in BagToSet(transit) :
        /\ r.kind = "progress" /\ Arrive(r)
        /\ saving' = IF stored.video THEN saving \cup {r.seconds} ELSE saving
    BY <1>5 DEF GetVideoForProgress
  <2>1. UNCHANGED <<stored, watch>>
    BY <1>5 DEF GetVideoForProgress
  <2>2. saving' \subseteq Nat
    BY <1>1 DEF Report
  <2>3. Watched(stored'.session) + watch'.sending <= Watched(stored.session) + watch.sending
    BY <2>1, Sizes
  <2> QED
    BY <1>1, <1>2, <2>1, <2>2, <2>3, Taken, ReceivedKeeps
<1>6. CASE UpsertHistory
  <2> PICK seconds \in saving :
        /\ saving' = saving \ {seconds}
        /\ \/ stored' = [stored EXCEPT !.history = [at |-> seconds, completed |-> Completed(seconds)]]
           \/ UNCHANGED stored
    BY <1>6 DEF UpsertHistory
  <2>1. UNCHANGED <<transit, watch>> /\ saving' \subseteq Nat
    BY <1>1, <1>6 DEF UpsertHistory
  <2>2. stored' \in Stored /\ stored'.session = stored.session
    <3> DEFINE row == [at |-> seconds, completed |-> Completed(seconds)]
    <3>1. row \in [at : Nat, completed : BOOLEAN]
      BY <1>1 DEF Completed
    <3> HIDE DEF row
    <3> QED
      BY <1>1, <3>1 DEF Stored, row
  <2>3. Watched(stored'.session) + watch'.sending <= Watched(stored.session) + watch.sending
    BY <2>1, <2>2, Sizes
  <2> QED
    BY <1>1, <1>2, <2>1, <2>2, <2>3, ReceivedKeeps
<1>7. CASE RecordHeartbeat
  <2> PICK r \in BagToSet(transit) :
        /\ r.kind = "heartbeat" /\ Arrive(r) /\ watch' = Received(r)
        /\ stored' = IF ~stored.video THEN stored
                     ELSE [stored EXCEPT !.session = UpsertWatchSession(stored.session,
                              IF r.delta > MaxHeartbeatDelta THEN MaxHeartbeatDelta
                              ELSE r.delta, r.seconds)]
    BY <1>7 DEF RecordHeartbeat
  <2> DEFINE delta == IF r.delta > MaxHeartbeatDelta THEN MaxHeartbeatDelta ELSE r.delta
             row == UpsertWatchSession(stored.session, delta, r.seconds)
  <2>1. UNCHANGED saving /\ r \in Report
    BY <1>1, <1>7 DEF RecordHeartbeat
  <2>2. /\ r.delta \in Nat /\ r.seconds \in Nat /\ delta \in Nat /\ delta <= r.delta
        /\ watch'.sending = watch.sending - r.delta
    BY <1>3, <2>1, Numbers
  <2>3. stored.session \in [watched : Nat, at : Nat] \cup {NoRow}
    BY <1>1 DEF Stored
  <2> HIDE DEF delta
  <2>4. row \in [watched : Nat, at : Nat] /\ row.watched = Watched(stored.session) + delta
    BY <2>2, <2>3 DEF UpsertWatchSession, Watched
  <2>5. stored' = stored \/ stored' = [stored EXCEPT !.session = row]
    BY DEF delta
  <2> HIDE DEF row
  <2>6. stored' \in Stored /\ (stored'.session = stored.session \/ stored'.session = row)
    BY <1>1, <2>4, <2>5 DEF Stored
  <2>7. row # NoRow
    BY <2>4 DEF NoRow
  <2>8. Watched(stored'.session) + watch'.sending <= Watched(stored.session) + watch.sending
    <3>1. stored'.session = row => Watched(stored'.session) = Watched(stored.session) + delta
      BY <2>4, <2>7 DEF Watched
    <3> QED
      BY <2>2, <2>6, <3>1, Sizes
  <2> QED
    BY <1>1, <1>2, <1>3, <2>1, <2>6, <2>8, Taken, ReceivedKeeps
<1>8. CASE RecordTelemetry
  <2> PICK r \in BagToSet(transit) :
        Arrive(r) /\ (stored' = stored \/ stored' = [stored EXCEPT !.telemetry = TRUE])
    BY <1>8 DEF RecordTelemetry
  <2>1. UNCHANGED <<saving, watch>>
    BY <1>8 DEF RecordTelemetry
  <2>2. stored' \in Stored /\ stored'.session = stored.session
    BY <1>1 DEF Stored
  <2>3. Watched(stored'.session) + watch'.sending <= Watched(stored.session) + watch.sending
    BY <2>1, <2>2, Sizes
  <2> QED
    BY <1>1, <1>2, <2>1, <2>2, <2>3, Taken, ReceivedKeeps
<1>9. CASE ClearHistory
  <2>1. stored' = [stored EXCEPT !.history = NoRow] /\ UNCHANGED <<transit, saving, watch>>
    BY <1>9 DEF ClearHistory
  <2>2. stored' \in Stored /\ stored'.session = stored.session
    BY <1>1, <2>1 DEF Stored
  <2>3. Watched(stored'.session) + watch'.sending <= Watched(stored.session) + watch.sending
    BY <2>1, <2>2, Sizes
  <2> QED
    BY <1>1, <1>2, <2>1, <2>2, <2>3, ReceivedKeeps
<1>10. CASE WatchedVideoDeleted
  <2>1. /\ stored' = [video |-> FALSE, history |-> NoRow, session |-> NoRow, telemetry |-> FALSE]
        /\ UNCHANGED <<transit, saving, watch>>
    BY <1>10 DEF WatchedVideoDeleted
  <2>2. stored' \in Stored /\ Watched(stored'.session) = 0
    BY <2>1 DEF Stored, Watched
  <2>3. Watched(stored'.session) + watch'.sending <= Watched(stored.session) + watch.sending
    BY <2>1, <2>2, Sizes
  <2> QED
    BY <1>1, <1>2, <2>1, <2>2, <2>3, ReceivedKeeps
<1> QED
  BY <1>4, <1>5, <1>6, <1>7, <1>8, <1>9, <1>10

LEMMA WatchStep == WatchInv /\ [WatchingNext]_watchingVars => WatchInv'
<1> SUFFICES ASSUME WatchInv, [WatchingNext]_watchingVars PROVE WatchInv'
  OBVIOUS
<1>1. CASE UNCHANGED watchingVars
  BY <1>1 DEF watchingVars, WatchInv, Typed, Counted, Slack, Excused
<1> QED
  BY <1>1, TimeUpdateKeeps, MovesKeep, PageKeeps, ServerKeeps DEF WatchingNext

\* A Watch Session never holds more than was played, beyond the rounding of
\* each move of the position and one capped delta per sample that outran its
\* seek's event: for any Video, any seeks, and any reports lost or reordered
\* (startPlaybackSession, RecordHeartbeat).
THEOREM WatchTime == WatchingSpec => []WatchTimeIsPlayed
<1>1. WatchInv => WatchTimeIsPlayed
  <2> SUFFICES ASSUME WatchInv PROVE WatchTimeIsPlayed
    OBVIOUS
  <2>1. Counted <= watch.played + watch.seeks + Excused
    BY Sizes DEF WatchInv
  <2> QED
    BY <2>1 DEF WatchTimeIsPlayed, Counted, Watched, Excused
<1> QED
  BY <1>1, WatchStart, WatchStep, PTL DEF WatchingSpec

-----------------------------------------------------------------------------
\* The rules an answer of Curation may meet, and what they answer.
LEMMA AnswerRules ==
    /\ DOMAIN Answers = 1..16
    /\ \A i \in 1..16 : (Answers[i][1] = "conflict" <=> i = 5) /\ (Answers[i][1] = "not_found" <=> i = 7)
                         /\ Answers[i][1] # "plain"
    /\ Answers[5][2] = 409 /\ Answers[7][2] = 404
<1> DEFINE first == << <<"busy", 409>>, <<"username_taken", 409>>, <<"already_exists", 409>>,
       <<"source_disabled", 409>>, <<"conflict", 409>>, <<"path_not_exist", 404>>,
       <<"not_found", 404>>, <<"not_remux", 404>>, <<"path_not_allowed", 403>>,
       <<"invalid_input", 400>>, <<"cannot_disable_admin", 400>> >>
   second == AuthOrStreamAnswers
<1>1. Answers = first \o second
  BY DEF Answers
<1> DEFINE rules == {first[i] : i \in 1..11} \cup {second[i] : i \in 1..5}
<1>2. first \in Seq(rules) /\ Len(first) = 11
  <2>1. Len(first) = 11 /\ first = [i \in 1..11 |-> first[i]]
    OBVIOUS
  <2> HIDE DEF first
  <2>2. \A i \in 1..11 : first[i] \in rules
    OBVIOUS
  <2> HIDE DEF rules
  <2>3. [i \in 1..11 |-> first[i]] \in Seq(rules)
    BY <2>2
  <2>4. QED
    BY <2>1, <2>3
<1>3. second \in Seq(rules) /\ Len(second) = 5
  <2>1. Len(second) = 5 /\ second = [i \in 1..5 |-> second[i]]
    BY DEF AuthOrStreamAnswers
  <2> HIDE DEF first, second
  <2>2. \A i \in 1..5 : second[i] \in rules
    OBVIOUS
  <2> HIDE DEF rules
  <2>3. [i \in 1..5 |-> second[i]] \in Seq(rules)
    BY <2>2
  <2>4. QED
    BY <2>1, <2>3
<1>4. /\ \A i \in 1..11 : (first[i][1] = "conflict" <=> i = 5) /\ (first[i][1] = "not_found" <=> i = 7)
                         /\ first[i][1] # "plain"
      /\ first[5][2] = 409 /\ first[7][2] = 404
  OBVIOUS
<1>5. /\ \A i \in 1..5 : second[i][1] \notin {"conflict", "not_found", "plain"}
  BY DEF AuthOrStreamAnswers
<1> HIDE DEF first, second, rules
<1>6. /\ Answers \in Seq(rules) /\ Len(Answers) = 16
      /\ \A i \in 1..11 : Answers[i] = first[i]
      /\ \A i \in 12..16 : Answers[i] = second[i - 11]
  <2>1. Answers \in Seq(rules) /\ Len(Answers) = Len(first) + Len(second)
    BY <1>1, <1>2, <1>3, ConcatProperties
  <2>2. \A i \in 1..16 : Answers[i] = IF i <= 11 THEN first[i] ELSE second[i - 11]
    <3>1. \A i \in 1..(Len(first) + Len(second)) :
             (first \o second)[i] = IF i <= Len(first) THEN first[i] ELSE second[i - Len(first)]
      BY <1>2, <1>3, ConcatProperties, Zenon
    <3>2. Len(first) + Len(second) = 16
      BY <1>2, <1>3
    <3>3. QED
      BY <1>1, <1>2, <3>1, <3>2
  <2>3. \A i \in 12..16 : Answers[i] = second[i - 11]
    BY <2>2
  <2>4. QED
    BY <1>2, <1>3, <2>1, <2>2, <2>3
<1>7. \A i \in 12..16 : i - 11 \in 1..5
  OBVIOUS
<1>8. \A i \in 1..16 : i \in 1..11 \/ i \in 12..16
  OBVIOUS
<1>9. DOMAIN Answers = 1..16
  BY <1>6
<1>10. \A i \in 12..16 : Answers[i][1] \notin {"conflict", "not_found", "plain"}
  BY <1>5, <1>6, <1>7
<1>11. \A i \in 12..16 : i # 5 /\ i # 7
  OBVIOUS
<1>12. \A i \in 1..11 : (Answers[i][1] = "conflict" <=> i = 5) /\ (Answers[i][1] = "not_found" <=> i = 7)
                            /\ Answers[i][1] # "plain"
  <2>1. \A i \in 1..11 : Answers[i] = first[i]
    BY <1>6, Zenon
  <2>2. \A i \in 1..11 : (first[i][1] = "conflict" <=> i = 5) /\ (first[i][1] = "not_found" <=> i = 7)
                            /\ first[i][1] # "plain"
    BY <1>4, Zenon
  <2>3. QED
    BY <2>1, <2>2
<1>13. Answers[5][2] = 409 /\ Answers[7][2] = 404
  <2>1. 5 \in 1..11 /\ 7 \in 1..11
    OBVIOUS
  <2>2. Answers[5] = first[5] /\ Answers[7] = first[7]
    BY <1>6, <2>1, Zenon
  <2>3. first[5][2] = 409 /\ first[7][2] = 404
    BY <1>4, Zenon
  <2>4. QED
    BY <2>2, <2>3
<1>14. ASSUME NEW i \in 1..16
       PROVE  (Answers[i][1] = "conflict" <=> i = 5) /\ (Answers[i][1] = "not_found" <=> i = 7)
                /\ Answers[i][1] # "plain"
  <2>1. CASE i \in 1..11
    BY <1>12, <2>1
  <2>2. CASE i \in 12..16
    BY <1>10, <1>11, <2>2
  <2>3. QED
    BY <1>8, <2>1, <2>2
<1>15. QED
  BY <1>9, <1>13, <1>14

LEMMA Statuses ==
    ASSUME NEW ok
    PROVE  /\ StatusOf({}, ok) = ok
           /\ StatusOf({"conflict"}, ok) = 409
           /\ StatusOf({"not_found"}, ok) = 404
           /\ StatusOf({"plain"}, ok) = 500
<1>1. StatusOf({}, ok) = ok
  BY DEF StatusOf, NoError
<1>2. ASSUME NEW err, err # {}, NEW n \in 1..16,
             {i \in DOMAIN Answers : Answers[i][1] \in err} = {n}
      PROVE  StatusOf(err, ok) = Answers[n][2]
  <2>1. \A i : i \in {n} /\ (\A j \in {n} : i <= j) => i = n
    OBVIOUS
  <2>2. n <= n
    OBVIOUS
  <2>3. (CHOOSE i \in {n} : \A j \in {n} : i <= j) = n
    BY <2>1, <2>2
  <2>4. QED
    BY <1>2, <2>3 DEF StatusOf, NoError
<1>3. {i \in DOMAIN Answers : Answers[i][1] \in {"conflict"}} = {5}
  BY AnswerRules
<1>4. {i \in DOMAIN Answers : Answers[i][1] \in {"not_found"}} = {7}
  BY AnswerRules
<1>5. {i \in DOMAIN Answers : Answers[i][1] \in {"plain"}} = {}
  BY AnswerRules
<1>6. StatusOf({"conflict"}, ok) = Answers[5][2]
  BY <1>2, <1>3
<1>7. StatusOf({"not_found"}, ok) = Answers[7][2]
  BY <1>2, <1>4
<1>8. StatusOf({"plain"}, ok) = 500
  BY <1>5 DEF StatusOf, NoError
<1>9. QED
  BY <1>1, <1>6, <1>7, <1>8, AnswerRules

-----------------------------------------------------------------------------
\* Curation.  The answers told count what is stored: per table, for the Videos
\* that live, and no two live recommendations are of one Video and day.

LivePick(i, v, day) == ~picks[i].deleted /\ picks[i].day = day /\ picks[i].video = v
Recommended(v, day) == \E i \in DOMAIN picks : LivePick(i, v, day)
OnePick ==
    \A i, j \in DOMAIN picks, v \in Videos, day \in Days :
        LivePick(i, v, day) /\ LivePick(j, v, day) => i = j

LinksBalance == \A v \in catalogue, t \in Tags :
                  told[<<v, t>>] = IF <<v, t>> \in links THEN 1 ELSE 0
PicksBalance == \A v \in catalogue, day \in Days :
                  told[<<v, day>>] = IF Recommended(v, day) THEN 1 ELSE 0
FavoritesBalance == \A v \in catalogue, u \in Viewers :
                      told[<<u, v>>] = IF <<u, v>> \in favorites THEN 1 ELSE 0

Tagging == [kind : {"tag"}, at : {"video", "tag", "link"}, link : Link]
Recommending == [kind : {"recommend"}, at : {"video", "insert"}, video : Videos, day : Days]

CurationTyped ==
    /\ catalogue \subseteq Videos /\ links \subseteq Link
    /\ picks \in Seq(Pick)
    /\ curating \in [Slots -> {Quiet} \cup Tagging \cup Recommending]
    /\ told \in [Keys -> Int]

CurationInv ==
    CurationTyped /\ OnePick /\ LinksBalance /\ PicksBalance /\ FavoritesBalance

\* The keys of told are apart.
LEMMA KeysApart ==
    ASSUME NEW v \in Videos, NEW t \in Tags, NEW day \in Days, NEW u \in Viewers
    PROVE  /\ <<v, t>> \in Keys /\ <<v, day>> \in Keys /\ <<u, v>> \in Keys
           /\ \A w \in Videos : <<v, t>> # <<w, day>> /\ <<v, t>> # <<u, w>> /\ <<v, day>> # <<u, w>>
BY CurationAssumption DEF Keys, Link

\* An answer changes its own entry.
LEMMA Told ==
    ASSUME told \in [Keys -> Int], NEW key \in Keys, NEW status, Tell(key, status)
    PROVE  /\ told' \in [Keys -> Int]
           /\ \A k \in Keys : k # key => told'[k] = told[k]
           /\ status = 201 => told'[key] = told[key] + 1
           /\ status = 204 => told'[key] = told[key] - 1
           /\ status \notin {201, 204} => told'[key] = told[key]
BY DEF Tell

\* A table's entries stay in balance when neither it nor they change.
LEMMA LinksStay ==
    ASSUME LinksBalance, catalogue' \subseteq catalogue, catalogue \subseteq Videos,
           \A v \in catalogue', t \in Tags :
             told'[<<v, t>>] = told[<<v, t>>] /\ (<<v, t>> \in links' <=> <<v, t>> \in links)
    PROVE  LinksBalance'
BY DEF LinksBalance

LEMMA PicksStay ==
    ASSUME PicksBalance, catalogue' \subseteq catalogue, catalogue \subseteq Videos,
           \A v \in catalogue', day \in Days :
             told'[<<v, day>>] = told[<<v, day>>] /\ (Recommended(v, day)' <=> Recommended(v, day))
    PROVE  PicksBalance'
<1> SUFFICES ASSUME NEW v \in catalogue', NEW day \in Days
             PROVE  told'[<<v, day>>] = IF Recommended(v, day)' THEN 1 ELSE 0
  BY DEF PicksBalance
<1>1. told[<<v, day>>] = IF Recommended(v, day) THEN 1 ELSE 0
  BY DEF PicksBalance
<1>2. Recommended(v, day)' <=> Recommended(v, day)
  OBVIOUS
<1> QED
  BY <1>1, <1>2, Zenon

LEMMA FavoritesStay ==
    ASSUME FavoritesBalance, catalogue' \subseteq catalogue, catalogue \subseteq Videos,
           \A v \in catalogue', u \in Viewers :
             /\ told'[<<u, v>>] = told[<<u, v>>]
             /\ <<u, v>> \in favorites' <=> <<u, v>> \in favorites
    PROVE  FavoritesBalance'
BY DEF FavoritesBalance

LEMMA SamePicks ==
    ASSUME picks' = picks
    PROVE  /\ OnePick => OnePick'
           /\ \A v, day : Recommended(v, day)' <=> Recommended(v, day)
BY DEF OnePick, Recommended, LivePick

LEMMA CurationStart == CurationInit => CurationInv
<1> SUFFICES ASSUME CurationInit PROVE CurationInv
  OBVIOUS
<1>1. CurationTyped /\ OnePick
  BY DEF CurationInit, CurationTyped, OnePick, LivePick
<1>2. \A v \in Videos, t \in Tags, day \in Days, u \in Viewers :
        told[<<v, t>>] = 0 /\ told[<<v, day>>] = 0 /\ told[<<u, v>>] = 0
  BY KeysApart DEF CurationInit
<1>3. \A v \in Videos, t \in Tags : told[<<v, t>>] = 0
  BY DEF CurationInit, Keys, Link
<1>4. \A v \in Videos, day \in Days : told[<<v, day>>] = 0
  BY DEF CurationInit, Keys, Link
<1>5. \A v \in Videos, u \in Viewers : told[<<u, v>>] = 0
  BY DEF CurationInit, Keys, Link
<1>6. \A v, day : ~Recommended(v, day)
  BY DEF CurationInit, Recommended
<1> QED
  BY <1>1, <1>3, <1>4, <1>5, <1>6 DEF CurationInv, CurationInit, LinksBalance, PicksBalance, FavoritesBalance

\* Tagging and untagging: one link and its entry change together.
LEMMA LinkChanges ==
    ASSUME CurationInv, UNCHANGED <<catalogue, favorites, picks>>,
           NEW v \in Videos, NEW t \in Tags, NEW status, Tell(<<v, t>>, status),
           links' \in SUBSET Link,
           \A l \in Link : l # <<v, t>> => (l \in links' <=> l \in links),
           v \in catalogue =>
             \/ status = 201 /\ <<v, t>> \notin links /\ <<v, t>> \in links'
             \/ status = 204 /\ <<v, t>> \in links /\ <<v, t>> \notin links'
             \/ status \notin {201, 204} /\ (<<v, t>> \in links' <=> <<v, t>> \in links)
    PROVE  /\ told' \in [Keys -> Int] /\ OnePick'
           /\ LinksBalance' /\ PicksBalance' /\ FavoritesBalance'
<1>1. <<v, t>> \in Keys /\ told \in [Keys -> Int] /\ catalogue \subseteq Videos
  BY DEF CurationInv, CurationTyped, Keys, Link
<1>2. /\ told' \in [Keys -> Int]
      /\ \A k \in Keys : k # <<v, t>> => told'[k] = told[k]
      /\ status = 201 => told'[<<v, t>>] = told[<<v, t>>] + 1
      /\ status = 204 => told'[<<v, t>>] = told[<<v, t>>] - 1
      /\ status \notin {201, 204} => told'[<<v, t>>] = told[<<v, t>>]
  BY <1>1, Told
<1>3. \A w \in Videos, day \in Days : told'[<<w, day>>] = told[<<w, day>>]
  BY <1>2, CurationAssumption DEF Keys, Link
<1>4. \A w \in Videos, u \in Viewers : told'[<<u, w>>] = told[<<u, w>>]
  BY <1>2, CurationAssumption DEF Keys
<1>5. PicksBalance' /\ FavoritesBalance' /\ OnePick'
  BY <1>1, <1>3, <1>4, SamePicks, PicksStay, FavoritesStay DEF CurationInv
<1>6. LinksBalance'
  <2> SUFFICES ASSUME NEW w \in catalogue', NEW s \in Tags
               PROVE  told'[<<w, s>>] = IF <<w, s>> \in links' THEN 1 ELSE 0
    BY DEF LinksBalance
  <2>1. told[<<w, s>>] = (IF <<w, s>> \in links THEN 1 ELSE 0) /\ <<w, s>> \in Keys
        /\ <<w, s>> \in Link
    BY <1>1 DEF CurationInv, LinksBalance, Keys, Link
  <2>2. CASE <<w, s>> # <<v, t>>
    BY <1>2, <2>1, <2>2
  <2>3. CASE <<w, s>> = <<v, t>>
    <3>1. w = v /\ s = t /\ v \in catalogue
      BY <2>3
    <3>2. QED
      BY <1>2, <2>1, <3>1
  <2>4. QED
    BY <2>2, <2>3
<1>7. QED
  BY <1>2, <1>5, <1>6

\* Recommending and deleting a recommendation likewise.
LEMMA PickChanges ==
    ASSUME CurationInv, UNCHANGED <<catalogue, favorites, links>>,
           NEW v \in Videos, NEW day \in Days, NEW status, Tell(<<v, day>>, status),
           \A w \in Videos, d \in Days : (w # v \/ d # day) =>
             (Recommended(w, d)' <=> Recommended(w, d)),
           v \in catalogue =>
             \/ status = 201 /\ ~Recommended(v, day) /\ Recommended(v, day)'
             \/ status = 204 /\ Recommended(v, day) /\ ~Recommended(v, day)'
             \/ status \notin {201, 204} /\ (Recommended(v, day)' <=> Recommended(v, day))
    PROVE  told' \in [Keys -> Int] /\ LinksBalance' /\ PicksBalance' /\ FavoritesBalance'
<1>1. <<v, day>> \in Keys /\ told \in [Keys -> Int] /\ catalogue \subseteq Videos
  BY DEF CurationInv, CurationTyped, Keys
<1>2. /\ told' \in [Keys -> Int]
      /\ \A k \in Keys : k # <<v, day>> => told'[k] = told[k]
      /\ status = 201 => told'[<<v, day>>] = told[<<v, day>>] + 1
      /\ status = 204 => told'[<<v, day>>] = told[<<v, day>>] - 1
      /\ status \notin {201, 204} => told'[<<v, day>>] = told[<<v, day>>]
  BY <1>1, Told
<1>3. \A w \in Videos, t \in Tags : told'[<<w, t>>] = told[<<w, t>>]
  BY <1>2, CurationAssumption DEF Keys, Link
<1>4. \A w \in Videos, u \in Viewers : told'[<<u, w>>] = told[<<u, w>>]
  BY <1>2, CurationAssumption DEF Keys
<1>5. LinksBalance' /\ FavoritesBalance'
  BY <1>1, <1>3, <1>4, LinksStay, FavoritesStay DEF CurationInv
<1>6. PicksBalance'
  <2> SUFFICES ASSUME NEW w \in catalogue', NEW d \in Days
               PROVE  told'[<<w, d>>] = IF Recommended(w, d)' THEN 1 ELSE 0
    BY DEF PicksBalance
  <2>1. told[<<w, d>>] = (IF Recommended(w, d) THEN 1 ELSE 0) /\ <<w, d>> \in Keys /\ w \in Videos
    BY <1>1 DEF CurationInv, PicksBalance, Keys
  <2>2. CASE w # v \/ d # day
    <3>1. Recommended(w, d)' <=> Recommended(w, d)
      BY <2>1, <2>2
    <3>2. told'[<<w, d>>] = told[<<w, d>>]
      BY <1>2, <2>1, <2>2
    <3>3. QED
      BY <2>1, <3>1, <3>2
  <2>3. CASE w = v /\ d = day
    <3>1. v \in catalogue
      BY <2>3
    <3>2. /\ told[<<v, day>>] = (IF Recommended(v, day) THEN 1 ELSE 0)
      BY <2>1, <2>3
    <3>3. told'[<<v, day>>] = IF Recommended(v, day)' THEN 1 ELSE 0
      BY <1>2, <3>1, <3>2
    <3>4. QED
      BY <2>3, <3>3
  <2>4. QED
    BY <2>2, <2>3
<1>7. QED
  BY <1>2, <1>5, <1>6

\* A Favorite's row and its entry.
LEMMA FavoriteChanges ==
    ASSUME CurationInv, UNCHANGED <<catalogue, links, picks, curating>>,
           NEW u \in Viewers, NEW v \in Videos,
           told' \in [Keys -> Int], \A k \in Keys : k # <<u, v>> => told'[k] = told[k],
           \A f : f # <<u, v>> => (f \in favorites' <=> f \in favorites),
           v \in catalogue => told'[<<u, v>>] = IF <<u, v>> \in favorites' THEN 1 ELSE 0
    PROVE  CurationInv'
<1>1. catalogue \subseteq Videos
  BY DEF CurationInv, CurationTyped
<1>2. \A w \in Videos, t \in Tags : told'[<<w, t>>] = told[<<w, t>>]
  BY CurationAssumption DEF Keys, Link
<1>3. \A w \in Videos, day \in Days : told'[<<w, day>>] = told[<<w, day>>]
  BY CurationAssumption DEF Keys, Link
<1>4. LinksBalance' /\ PicksBalance' /\ OnePick'
  BY <1>1, <1>2, <1>3, SamePicks, LinksStay, PicksStay DEF CurationInv
<1>5. FavoritesBalance'
  <2> SUFFICES ASSUME NEW w \in catalogue', NEW x \in Viewers
               PROVE  told'[<<x, w>>] = IF <<x, w>> \in favorites' THEN 1 ELSE 0
    BY DEF FavoritesBalance
  <2>1. told[<<x, w>>] = (IF <<x, w>> \in favorites THEN 1 ELSE 0) /\ <<x, w>> \in Keys
    BY <1>1 DEF CurationInv, FavoritesBalance, Keys
  <2>2. CASE <<x, w>> # <<u, v>>
    BY <2>1, <2>2
  <2>3. CASE <<x, w>> = <<u, v>>
    BY <2>3
  <2>4. QED
    BY <2>2, <2>3
<1>6. QED
  BY <1>4, <1>5 DEF CurationInv, CurationTyped

LEMMA FavoriteKeeps == ASSUME CurationInv, Favorite PROVE CurationInv'
<1> PICK u \in Viewers, v \in Videos :
      /\ favorites' = AddFavorite(u, v).rows
      /\ told' = [told EXCEPT ![<<u, v>>] =
                    IF StatusOf(AddedFavorite(AddFavorite(u, v).err), 201) = 201 THEN 1 ELSE @]
  BY DEF Favorite
<1>1. UNCHANGED <<catalogue, links, picks, curating>>
  BY DEF Favorite
<1>2. told \in [Keys -> Int] /\ <<u, v>> \in Keys
  BY DEF CurationInv, CurationTyped, Keys
<1>3. told' \in [Keys -> Int] /\ \A k \in Keys : k # <<u, v>> => told'[k] = told[k]
  BY <1>2
<1>4. \A f : f # <<u, v>> => (f \in favorites' <=> f \in favorites)
  BY DEF AddFavorite
<1>5. ASSUME v \in catalogue PROVE told'[<<u, v>>] = IF <<u, v>> \in favorites' THEN 1 ELSE 0
  <2>1. AddedFavorite(AddFavorite(u, v).err) = {} /\ <<u, v>> \in favorites'
    BY <1>5 DEF AddFavorite, AddedFavorite, NoError
  <2>2. StatusOf(AddedFavorite(AddFavorite(u, v).err), 201) = 201
    BY <2>1, Statuses
  <2>3. told'[<<u, v>>] = 1
    BY <1>2, <2>2
  <2>4. QED
    BY <2>1, <2>3
<1>6. QED
  BY <1>1, <1>3, <1>4, <1>5, FavoriteChanges

LEMMA UnfavoriteKeeps == ASSUME CurationInv, Unfavorite PROVE CurationInv'
<1> PICK u \in Viewers, v \in Videos :
      /\ favorites' = RemoveFavorite(u, v).rows
      /\ Tell(<<u, v>>, StatusOf(RemoveFavorite(u, v).err, 204))
  BY DEF Unfavorite
<1> DEFINE status == StatusOf(RemoveFavorite(u, v).err, 204)
<1>1. UNCHANGED <<catalogue, links, picks, curating>>
  BY DEF Unfavorite
<1>2. told \in [Keys -> Int] /\ <<u, v>> \in Keys
  BY DEF CurationInv, CurationTyped, Keys
<1>3. /\ told' \in [Keys -> Int]
      /\ \A k \in Keys : k # <<u, v>> => told'[k] = told[k]
      /\ status = 204 => told'[<<u, v>>] = told[<<u, v>>] - 1
      /\ status \notin {201, 204} => told'[<<u, v>>] = told[<<u, v>>]
  BY <1>2, Told
<1>4. \A f : f # <<u, v>> => (f \in favorites' <=> f \in favorites)
  BY DEF RemoveFavorite
<1>5. status = IF <<u, v>> \in favorites THEN 204 ELSE 404
  BY Statuses DEF RemoveFavorite, NoError
<1>6. <<u, v>> \notin favorites'
  BY DEF RemoveFavorite
<1>7. ASSUME v \in catalogue PROVE told'[<<u, v>>] = IF <<u, v>> \in favorites' THEN 1 ELSE 0
  <2>1. told[<<u, v>>] = IF <<u, v>> \in favorites THEN 1 ELSE 0
    BY <1>7 DEF CurationInv, FavoritesBalance
  <2>2. QED
    BY <1>3, <1>5, <1>6, <2>1
<1> HIDE DEF status
<1>8. QED
  BY <1>1, <1>3, <1>4, <1>7, FavoriteChanges

\* A call in a slot keeps its type; a step of it leaves the others as they are.
LEMMA CallTyped ==
    ASSUME CurationInv, NEW s \in Slots, NEW c \in {Quiet} \cup Tagging \cup Recommending,
           curating' = [curating EXCEPT ![s] = c]
    PROVE  curating' \in [Slots -> {Quiet} \cup Tagging \cup Recommending]
BY DEF CurationInv, CurationTyped

LEMMA Calls ==
    ASSUME CurationInv, NEW s \in Slots
    PROVE  /\ curating[s].kind = "tag" => curating[s] \in Tagging
           /\ curating[s].kind = "recommend" => curating[s] \in Recommending
BY DEF CurationInv, CurationTyped, Tagging, Recommending, Quiet

\* A step that only moves a call on.
LEMMA OnlyCalls ==
    ASSUME CurationInv, UNCHANGED <<catalogue, favorites, links, picks, told>>,
           curating' \in [Slots -> {Quiet} \cup Tagging \cup Recommending]
    PROVE  CurationInv'
<1>1. CurationTyped'
  BY DEF CurationInv, CurationTyped
<1>2. LinksBalance' /\ FavoritesBalance'
  BY DEF CurationInv, LinksBalance, FavoritesBalance
<1>3. OnePick' /\ PicksBalance'
  BY SamePicks, PicksStay DEF CurationInv, CurationTyped
<1>4. QED
  BY <1>1, <1>2, <1>3 DEF CurationInv

LEMMA TagsKeep == ASSUME CurationInv, CreateTag \/ ApplyTag \/ RemoveVideoTag PROVE CurationInv'
<1>1. CASE CreateTag
  <2>1. UNCHANGED <<catalogue, favorites, links, picks, curating, told>>
    BY <1>1 DEF CreateTag
  <2>2. QED
    BY <2>1, OnlyCalls DEF CurationInv, CurationTyped
<1>2. CASE ApplyTag
  <2> PICK v \in Videos, t \in Tags :
        /\ v \in catalogue /\ links' = links \cup {<<v, t>>}
        /\ IF <<v, t>> \in links THEN UNCHANGED told ELSE Tell(<<v, t>>, 201)
    BY <1>2 DEF ApplyTag
  <2>1. UNCHANGED <<catalogue, favorites, picks, curating>>
    BY <1>2 DEF ApplyTag
  <2>2. links' \in SUBSET Link /\ \A l \in Link : l # <<v, t>> => (l \in links' <=> l \in links)
    BY DEF CurationInv, CurationTyped, Link
  <2>3. CASE <<v, t>> \in links
    <3>1. links' = links /\ told' = told
      BY <2>3
    <3>2. QED
      BY <2>1, <3>1, OnlyCalls DEF CurationInv, CurationTyped
  <2>4. CASE <<v, t>> \notin links
    <3>1. Tell(<<v, t>>, 201) /\ <<v, t>> \in links'
      BY <2>4
    <3>2. /\ told' \in [Keys -> Int] /\ OnePick'
          /\ LinksBalance' /\ PicksBalance' /\ FavoritesBalance'
      BY <2>1, <2>2, <2>4, <3>1, LinkChanges
    <3>3. QED
      BY <2>1, <2>2, <3>2 DEF CurationInv, CurationTyped
  <2>5. QED
    BY <2>3, <2>4
<1>3. CASE RemoveVideoTag
  <2> PICK v \in Videos, t \in Tags :
        /\ links' = DeleteLink(v, t).rows
        /\ Tell(<<v, t>>, StatusOf(DeleteLink(v, t).err, 204))
    BY <1>3 DEF RemoveVideoTag
  <2> DEFINE status == StatusOf(DeleteLink(v, t).err, 204)
  <2>1. UNCHANGED <<catalogue, favorites, picks, curating>>
    BY <1>3 DEF RemoveVideoTag
  <2>2. links' \in SUBSET Link /\ \A l \in Link : l # <<v, t>> => (l \in links' <=> l \in links)
    BY DEF CurationInv, CurationTyped, Link, DeleteLink
  <2>3. <<v, t>> \notin links' /\ status = IF <<v, t>> \in links THEN 204 ELSE 404
    BY Statuses DEF DeleteLink, NoError
  <2>4. Tell(<<v, t>>, status)
    OBVIOUS
  <2> HIDE DEF status
  <2>5. \/ status = 204 /\ <<v, t>> \in links /\ <<v, t>> \notin links'
        \/ status \notin {201, 204} /\ (<<v, t>> \in links' <=> <<v, t>> \in links)
    BY <2>3
  <2>6. /\ told' \in [Keys -> Int] /\ OnePick'
        /\ LinksBalance' /\ PicksBalance' /\ FavoritesBalance'
    BY <2>1, <2>2, <2>4, <2>5, LinkChanges
  <2>7. QED
    BY <2>1, <2>2, <2>6 DEF CurationInv, CurationTyped
<1>4. QED
  BY <1>1, <1>2, <1>3

LEMMA AddVideoTagKeeps == ASSUME CurationInv, NEW s \in Slots, AddVideoTag(s) PROVE CurationInv'
<1> DEFINE call == curating[s]
<1>1. call \in Tagging
  BY Calls DEF AddVideoTag
<1> PICK v \in Videos, t \in Tags : v = call.link[1] /\ t = call.link[2]
  BY <1>1 DEF Tagging, Link
<1>2. UNCHANGED <<catalogue, favorites, picks>>
  BY DEF AddVideoTag
<1>3. CASE call.at \in {"video", "tag"}
  <2>1. UNCHANGED <<links, told>>
    BY <1>3 DEF AddVideoTag
  <2>2. PICK next \in {"tag", "link"} :
          curating' = [curating EXCEPT ![s] = [call EXCEPT !.at = next]] \/ curating' = [curating EXCEPT ![s] = Quiet]
    BY <1>3 DEF AddVideoTag, CurationInv, CurationTyped
  <2>3. [call EXCEPT !.at = next] \in Tagging
    BY <1>1 DEF Tagging
  <2>4. curating' \in [Slots -> {Quiet} \cup Tagging \cup Recommending]
    BY <2>2, <2>3, CallTyped
  <2>5. QED
    BY <1>2, <2>1, <2>4, OnlyCalls
<1>4. CASE call.at = "link"
  <2> DEFINE linked == InsertLink(v, t)
             status == TagAnswer(linked.err)
  <2>1. links' = linked.rows /\ Tell(<<v, t>>, status)
        /\ curating' = [curating EXCEPT ![s] = Quiet]
    BY <1>4 DEF AddVideoTag
  <2>2. links' \in SUBSET Link /\ \A l \in Link : l # <<v, t>> => (l \in links' <=> l \in links)
    BY <1>1, <2>1 DEF CurationInv, CurationTyped, Link, InsertLink
  <2>3. \/ status = 201 /\ <<v, t>> \notin links /\ <<v, t>> \in links'
        \/ status \notin {201, 204} /\ (<<v, t>> \in links' <=> <<v, t>> \in links)
    <3>1. CASE <<v, t>> \in links
      <4>1. linked.err = {"conflict"} /\ links' = links
        BY <2>1, <3>1 DEF InsertLink
      <4>2. status = 200
        BY <4>1 DEF TagAnswer
      <4>3. QED
        BY <4>1, <4>2
    <3>2. CASE <<v, t>> \notin links /\ v \in catalogue /\ t \in tags
      <4>1. linked.err = {} /\ <<v, t>> \in links'
        BY <2>1, <3>2 DEF InsertLink, NoError
      <4>2. status = 201
        BY <4>1, Statuses DEF TagAnswer
      <4>3. QED
        BY <3>2, <4>1, <4>2
    <3>3. CASE <<v, t>> \notin links /\ ~(v \in catalogue /\ t \in tags)
      <4>1. linked.err = {"not_found"} /\ links' = links
        BY <2>1, <3>3 DEF InsertLink
      <4>2. status = 404
        <5>1. {"not_found"} # {"conflict"}
          OBVIOUS
        <5>2. TagAnswer({"not_found"}) = 404
          BY <5>1, Statuses DEF TagAnswer
        <5>3. QED
          BY <4>1, <5>2
      <4>3. QED
        BY <4>1, <4>2
    <3>4. QED
      BY <3>1, <3>2, <3>3
  <2> HIDE DEF status, linked, call
  <2>4. /\ told' \in [Keys -> Int] /\ OnePick'
        /\ LinksBalance' /\ PicksBalance' /\ FavoritesBalance'
    BY <1>1, <1>2, <2>1, <2>2, <2>3, LinkChanges
  <2>5. curating' \in [Slots -> {Quiet} \cup Tagging \cup Recommending]
    BY <2>1, CallTyped
  <2>6. QED
    BY <1>2, <2>2, <2>4, <2>5 DEF CurationInv, CurationTyped
<1>5. QED
  BY <1>1, <1>3, <1>4 DEF Tagging

LEMMA RecommendKeeps == ASSUME CurationInv, NEW s \in Slots, Recommend(s) PROVE CurationInv'
<1> DEFINE call == curating[s]
<1>1. call \in Recommending
  BY Calls DEF Recommend
<1> PICK v \in Videos, day \in Days : v = call.video /\ day = call.day
  BY <1>1 DEF Recommending
<1>2. UNCHANGED <<catalogue, favorites, links>>
  BY DEF Recommend
<1>3. CASE call.at = "video"
  <2>1. UNCHANGED <<picks, told>>
    BY <1>3 DEF Recommend
  <2>2. \/ curating' = [curating EXCEPT ![s] = [call EXCEPT !.at = "insert"]]
        \/ curating' = [curating EXCEPT ![s] = Quiet]
    BY <1>3 DEF Recommend, CurationInv, CurationTyped
  <2>3. [call EXCEPT !.at = "insert"] \in Recommending
    BY <1>1 DEF Recommending
  <2>4. curating' \in [Slots -> {Quiet} \cup Tagging \cup Recommending]
    BY <2>2, <2>3, CallTyped
  <2>5. QED
    BY <1>2, <2>1, <2>4, OnlyCalls
<1>4. CASE call.at = "insert"
  <2> DEFINE made == InsertPick(v, day)
             status == StatusOf(made.err, 201)
             row == [video |-> v, day |-> day, order |-> 0, deleted |-> FALSE]
  <2>1. picks' = made.rows /\ Tell(<<v, day>>, status)
        /\ curating' = [curating EXCEPT ![s] = Quiet]
    BY <1>4 DEF Recommend
  <2>2. picks \in Seq(Pick) /\ Len(picks) \in Nat
    BY DEF CurationInv, CurationTyped
  <2>3. Recommended(v, day) <=> \E i \in Listed(day) : picks[i].video = v
    BY DEF Recommended, LivePick, Listed
  <2>4. CASE Recommended(v, day) \/ v \notin catalogue
    <3>1. picks' = picks /\ (made.err = {"conflict"} \/ made.err = {"plain"})
      BY <2>1, <2>3, <2>4 DEF InsertPick, PlainError
    <3>2. status \notin {201, 204}
      <4>1. CASE made.err = {"conflict"}
        BY <4>1, Statuses
      <4>2. CASE made.err = {"plain"}
        BY <4>2, Statuses
      <4>3. QED
        BY <3>1, <4>1, <4>2
    <3> HIDE DEF status, made, call
    <3>3. /\ \A w, d : Recommended(w, d)' <=> Recommended(w, d)
          /\ OnePick'
      BY <3>1, SamePicks DEF CurationInv
    <3>4. told' \in [Keys -> Int] /\ LinksBalance' /\ PicksBalance' /\ FavoritesBalance'
      BY <1>1, <1>2, <2>1, <3>2, <3>3, PickChanges
    <3>5. curating' \in [Slots -> {Quiet} \cup Tagging \cup Recommending]
      BY <2>1, CallTyped
    <3>6. QED
      BY <1>2, <3>1, <3>3, <3>4, <3>5 DEF CurationInv, CurationTyped
  <2>5. CASE ~Recommended(v, day) /\ v \in catalogue
    <3>1. picks' = Append(picks, row) /\ made.err = {}
      BY <2>1, <2>3, <2>5 DEF InsertPick, NoError
    <3>2. status = 201
      BY <3>1, Statuses
    <3>3. row \in Pick
      BY <1>1 DEF Pick
    <3>4. row.video = v /\ row.day = day /\ ~row.deleted
      OBVIOUS
    <3> HIDE DEF status, made, row, call
    <3>5. /\ picks' \in Seq(Pick) /\ Len(picks') = Len(picks) + 1
          /\ \A i \in DOMAIN picks : picks'[i] = picks[i] /\ i \in DOMAIN picks'
          /\ picks'[Len(picks) + 1] = row /\ Len(picks) + 1 \in DOMAIN picks'
          /\ \A i \in DOMAIN picks' : i \in DOMAIN picks \/ i = Len(picks) + 1
      BY <2>2, <3>1, <3>3
    <3>6. \A w, d : Recommended(w, d)' <=> (Recommended(w, d) \/ (w = v /\ d = day))
      BY <3>4, <3>5 DEF Recommended, LivePick
    <3>7. OnePick'
      <4> SUFFICES ASSUME NEW i \in DOMAIN picks', NEW j \in DOMAIN picks',
                          NEW w \in Videos, NEW d \in Days, LivePick(i, w, d)', LivePick(j, w, d)'
                   PROVE  i = j
        BY DEF OnePick
      <4>1. CASE i \in DOMAIN picks /\ j \in DOMAIN picks
        BY <3>5, <4>1 DEF LivePick, OnePick, CurationInv
      <4>2. CASE i \notin DOMAIN picks /\ j \notin DOMAIN picks
        BY <3>5, <4>2
      <4>3. CASE i \in DOMAIN picks /\ j \notin DOMAIN picks
        <5>1. w = v /\ d = day /\ LivePick(i, w, d)
          BY <3>4, <3>5, <4>3 DEF LivePick
        <5>2. QED
          BY <2>5, <4>3, <5>1 DEF Recommended
      <4>4. CASE i \notin DOMAIN picks /\ j \in DOMAIN picks
        <5>1. w = v /\ d = day /\ LivePick(j, w, d)
          BY <3>4, <3>5, <4>4 DEF LivePick
        <5>2. QED
          BY <2>5, <4>4, <5>1 DEF Recommended
      <4>5. QED
        BY <4>1, <4>2, <4>3, <4>4
    <3>8. told' \in [Keys -> Int] /\ LinksBalance' /\ PicksBalance' /\ FavoritesBalance'
      <4>1. \A w \in Videos, d \in Days : (w # v \/ d # day) =>
              (Recommended(w, d)' <=> Recommended(w, d))
        BY <3>6
      <4>2. Recommended(v, day)'
        BY <3>6
      <4>3. QED
        BY <1>1, <1>2, <2>1, <2>5, <3>2, <4>1, <4>2, PickChanges
    <3>9. curating' \in [Slots -> {Quiet} \cup Tagging \cup Recommending]
      BY <2>1, CallTyped
    <3>10. QED
      BY <1>2, <3>5, <3>7, <3>8, <3>9 DEF CurationInv, CurationTyped
  <2>6. QED
    BY <2>4, <2>5
<1>5. QED
  BY <1>1, <1>3, <1>4 DEF Recommending

LEMMA CallsKeep ==
    ASSUME CurationInv, NEW s \in Slots, StartTagVideo(s) \/ StartRecommend(s) \/ CuratingFails(s)
    PROVE  CurationInv'
<1>1. UNCHANGED <<catalogue, favorites, links, picks, told>>
  BY DEF StartTagVideo, StartRecommend, CuratingFails
<1>2. \E c \in {Quiet} \cup Tagging \cup Recommending : curating' = [curating EXCEPT ![s] = c]
  BY DEF StartTagVideo, StartRecommend, CuratingFails, Tagging, Recommending
<1>3. QED
  BY <1>1, <1>2, CallTyped, OnlyCalls

\* A row keeps its place: what picks that change nothing but order or deletion do.
LEMMA PicksKeep == ASSUME CurationInv, UpdateSortOrder \/ DeletePick PROVE CurationInv'
<1>1. UNCHANGED <<catalogue, favorites, links, curating>>
  BY DEF UpdateSortOrder, DeletePick
<1>2. picks \in Seq(Pick) /\ DOMAIN picks = 1..Len(picks) /\ \A i \in DOMAIN picks : picks[i] \in Pick
  BY DEF CurationInv, CurationTyped
<1>3. CASE UpdateSortOrder
  <2> PICK i \in DOMAIN picks, n \in {0, 1} : picks' = [picks EXCEPT ![i].order = n]
    BY <1>3 DEF UpdateSortOrder
  <2>1. told' = told
    BY <1>3 DEF UpdateSortOrder
  <2>2. n \in Nat
    OBVIOUS
  <2>3. /\ picks' = [picks EXCEPT ![i] = [picks[i] EXCEPT !.order = n]]
        /\ [picks[i] EXCEPT !.order = n] \in Pick
    BY <1>2, <2>2 DEF Pick
  <2>4. picks' \in Seq(Pick) /\ DOMAIN picks' = DOMAIN picks
    BY <1>2, <2>3
  <2>5. \A j \in DOMAIN picks : /\ picks'[j].deleted = picks[j].deleted
                                /\ picks'[j].day = picks[j].day /\ picks'[j].video = picks[j].video
    BY <1>2, <2>3 DEF Pick
  <2>6. /\ \A v, day : \A j \in DOMAIN picks : LivePick(j, v, day)' <=> LivePick(j, v, day)
        /\ \A v, day : Recommended(v, day)' <=> Recommended(v, day)
    BY <2>4, <2>5 DEF LivePick, Recommended
  <2>7. OnePick'
    BY <2>4, <2>6 DEF OnePick, CurationInv
  <2>8. PicksBalance' /\ LinksBalance' /\ FavoritesBalance'
    BY <1>1, <2>1, <2>6, PicksStay, LinksStay, FavoritesStay DEF CurationInv, CurationTyped
  <2>9. QED
    BY <1>1, <2>1, <2>4, <2>7, <2>8 DEF CurationInv, CurationTyped
<1>4. CASE DeletePick
  <2> PICK i \in DOMAIN picks :
        /\ picks' = [picks EXCEPT ![i].deleted = TRUE]
        /\ Tell(<<picks[i].video, picks[i].day>>,
                StatusOf(IF picks[i].deleted THEN {"not_found"} ELSE NoError, 204))
    BY <1>4 DEF DeletePick
  <2> PICK v \in Videos, day \in Days : v = picks[i].video /\ day = picks[i].day
    BY <1>2 DEF Pick
  <2> DEFINE status == StatusOf(IF picks[i].deleted THEN {"not_found"} ELSE NoError, 204)
  <2>1. Tell(<<v, day>>, status)
    OBVIOUS
  <2>2. status = IF picks[i].deleted THEN 404 ELSE 204
    BY Statuses DEF NoError
  <2>3. /\ picks' = [picks EXCEPT ![i] = [picks[i] EXCEPT !.deleted = TRUE]]
        /\ [picks[i] EXCEPT !.deleted = TRUE] \in Pick
    BY <1>2 DEF Pick
  <2>4. picks' \in Seq(Pick) /\ DOMAIN picks' = DOMAIN picks
    BY <1>2, <2>3
  <2>5. /\ \A j \in DOMAIN picks : /\ picks'[j].day = picks[j].day /\ picks'[j].video = picks[j].video
                                   /\ j # i => picks'[j].deleted = picks[j].deleted
        /\ picks'[i].deleted
    <3> DEFINE row == [picks[i] EXCEPT !.deleted = TRUE]
    <3>1. picks[i] \in Pick
      BY <1>2
    <3>2. row.day = picks[i].day /\ row.video = picks[i].video /\ row.deleted
      BY <3>1 DEF Pick
    <3>3. picks' = [picks EXCEPT ![i] = row]
      BY <2>3
    <3> HIDE DEF row
    <3>4. picks'[i] = row /\ \A j \in DOMAIN picks : j # i => picks'[j] = picks[j]
      BY <1>2, <3>3
    <3>5. QED
      BY <3>2, <3>4
  <2>6. \A w, d : \A j \in DOMAIN picks : LivePick(j, w, d)' <=> LivePick(j, w, d) /\ j # i
    BY <2>5 DEF LivePick
  <2>7. OnePick'
    BY <2>4, <2>6 DEF OnePick, CurationInv
  <2>8. \A w \in Videos, d \in Days : (w # v \/ d # day) => (Recommended(w, d)' <=> Recommended(w, d))
    BY <2>4, <2>6 DEF Recommended, LivePick
  <2>9. \/ status = 204 /\ Recommended(v, day) /\ ~Recommended(v, day)'
        \/ status \notin {201, 204} /\ (Recommended(v, day)' <=> Recommended(v, day))
    <3>1. CASE picks[i].deleted
      BY <2>2, <2>4, <2>6, <3>1 DEF Recommended, LivePick
    <3>2. CASE ~picks[i].deleted
      <4>1. LivePick(i, v, day)
        BY <3>2 DEF LivePick
      <4>2. \A j \in DOMAIN picks : ~LivePick(j, v, day)'
        BY <2>1, <2>6, <4>1 DEF OnePick, CurationInv
      <4>3. Recommended(v, day) /\ ~Recommended(v, day)'
        BY <2>4, <4>1, <4>2 DEF Recommended
      <4>4. QED
        BY <2>2, <3>2, <4>3
    <3>3. QED
      BY <3>1, <3>2
  <2> HIDE DEF status
  <2>10. told' \in [Keys -> Int] /\ LinksBalance' /\ PicksBalance' /\ FavoritesBalance'
    BY <1>1, <2>1, <2>8, <2>9, PickChanges
  <2>11. QED
    BY <1>1, <2>4, <2>7, <2>10 DEF CurationInv, CurationTyped
<1>5. QED
  BY <1>3, <1>4

LEMMA DeletionKeeps == ASSUME CurationInv, CuratedVideoDeleted PROVE CurationInv'
<1> PICK v \in catalogue :
      /\ catalogue' = catalogue \ {v}
      /\ favorites' = {f \in favorites : f[2] # v}
      /\ links' = {l \in links : l[1] # v}
      /\ picks' = [i \in DOMAIN picks |-> [picks[i] EXCEPT !.deleted = @ \/ picks[i].video = v]]
  BY DEF CuratedVideoDeleted
<1>1. UNCHANGED <<curating, told>>
  BY DEF CuratedVideoDeleted
<1>2. picks \in Seq(Pick) /\ DOMAIN picks = 1..Len(picks) /\ \A i \in DOMAIN picks : picks[i] \in Pick
  BY DEF CurationInv, CurationTyped
<1>3. \A i \in DOMAIN picks : [picks[i] EXCEPT !.deleted = @ \/ picks[i].video = v] \in Pick
  BY <1>2 DEF Pick
<1>4. picks' \in Seq(Pick) /\ DOMAIN picks' = DOMAIN picks
  BY <1>2, <1>3
<1>5. \A i \in DOMAIN picks : /\ picks'[i].day = picks[i].day /\ picks'[i].video = picks[i].video
                              /\ picks'[i].deleted <=> picks[i].deleted \/ picks[i].video = v
  BY <1>2 DEF Pick
<1>6. \A w, day : \A i \in DOMAIN picks : LivePick(i, w, day)' <=> LivePick(i, w, day) /\ w # v
  BY <1>5 DEF LivePick
<1>7. OnePick'
  BY <1>4, <1>6 DEF OnePick, CurationInv
<1>8. catalogue \subseteq Videos /\ catalogue' \subseteq catalogue /\ \A w \in catalogue' : w # v
  BY DEF CurationInv, CurationTyped
<1>9. PicksBalance'
  <2>1. \A w \in catalogue', day \in Days : Recommended(w, day)' <=> Recommended(w, day)
    BY <1>4, <1>6, <1>8 DEF Recommended
  <2>2. QED
    BY <1>1, <1>8, <2>1, PicksStay DEF CurationInv
<1>10. LinksBalance'
  BY <1>1, <1>8, LinksStay DEF CurationInv
<1>11. FavoritesBalance'
  BY <1>1, <1>8, FavoritesStay DEF CurationInv
<1>12. QED
  BY <1>1, <1>4, <1>7, <1>8, <1>9, <1>10, <1>11 DEF CurationInv, CurationTyped

LEMMA CurationStep == CurationInv /\ [CurationNext]_curationVars => CurationInv'
<1> SUFFICES ASSUME CurationInv, [CurationNext]_curationVars PROVE CurationInv'
  OBVIOUS
<1>1. CASE UNCHANGED curationVars
  BY <1>1, OnlyCalls DEF curationVars, CurationInv, CurationTyped
<1>2. CASE Favorite \/ Unfavorite
  BY <1>2, FavoriteKeeps, UnfavoriteKeeps
<1>3. CASE CreateTag \/ ApplyTag \/ RemoveVideoTag
  BY <1>3, TagsKeep
<1>4. CASE UpdateSortOrder \/ DeletePick
  BY <1>4, PicksKeep
<1>5. CASE CuratedVideoDeleted
  BY <1>5, DeletionKeeps
<1>6. ASSUME NEW s \in Slots, StartTagVideo(s) \/ AddVideoTag(s) \/ StartRecommend(s)
                              \/ Recommend(s) \/ CuratingFails(s)
      PROVE  CurationInv'
  BY <1>6, CallsKeep, AddVideoTagKeeps, RecommendKeeps
<1>7. QED
  BY <1>1, <1>2, <1>3, <1>4, <1>5, <1>6 DEF CurationNext

\* While a Video lives, the answers told of its Tags, its Favorites and its
\* recommendations count what is stored, whatever calls race.
THEOREM AnswersCount == CurationSpec => []AnswersBalance
<1>1. CurationInv => AnswersBalance
  <2>1. \A v, day : Recommended(v, day) <=> \E i \in Listed(day) : picks[i].video = v
    BY DEF Recommended, LivePick, Listed
  <2>2. PicksBalance => \A v \in catalogue, day \in Days :
          told[<<v, day>>] = IF \E i \in Listed(day) : picks[i].video = v THEN 1 ELSE 0
    BY <2>1, Zenon DEF PicksBalance
  <2>3. QED
    BY <2>2 DEF CurationInv, AnswersBalance, LinksBalance, FavoritesBalance
<1>2. QED
  BY <1>1, CurationStart, CurationStep, PTL DEF CurationSpec

\* The tables and the calls keep their types, for any ids.
THEOREM CurationTypes == CurationSpec => []CurationTypeOK
<1> DEFINE RowsTyped == favorites \subseteq Viewers \X Videos /\ tags \subseteq Tags
<1>1. CurationInit => RowsTyped
  BY DEF CurationInit
<1>2. RowsTyped /\ [CurationNext]_curationVars => RowsTyped'
  <2> SUFFICES ASSUME RowsTyped, [CurationNext]_curationVars PROVE RowsTyped'
    OBVIOUS
  <2>1. CASE Favorite
    BY <2>1 DEF Favorite, AddFavorite
  <2>2. CASE Unfavorite
    BY <2>2 DEF Unfavorite, RemoveFavorite
  <2>3. CASE CreateTag
    BY <2>3 DEF CreateTag, InsertTag
  <2>4. CASE ApplyTag
    BY <2>4 DEF ApplyTag, GetOrCreateByName
  <2>5. CASE CuratedVideoDeleted
    BY <2>5 DEF CuratedVideoDeleted
  <2>6. CASE UNCHANGED <<favorites, tags>>
    BY <2>6
  <2>7. UNCHANGED curationVars \/ RemoveVideoTag \/ UpdateSortOrder \/ DeletePick
          => UNCHANGED <<favorites, tags>>
    BY DEF curationVars, RemoveVideoTag, UpdateSortOrder, DeletePick
  <2>8. ASSUME NEW s \in Slots,
               \/ StartTagVideo(s) \/ AddVideoTag(s) \/ StartRecommend(s)
               \/ Recommend(s) \/ CuratingFails(s)
        PROVE  UNCHANGED <<favorites, tags>>
    BY <2>8 DEF StartTagVideo, AddVideoTag, StartRecommend, Recommend, CuratingFails
  <2>9. QED
    BY <2>1, <2>2, <2>3, <2>4, <2>5, <2>6, <2>7, <2>8 DEF CurationNext
<1>3. CurationInv /\ RowsTyped => CurationTypeOK
  BY DEF CurationInv, CurationTyped, CurationTypeOK, Tagging, Recommending
<1>4. QED
  BY <1>1, <1>2, <1>3, CurationStart, CurationStep, PTL DEF CurationSpec
=============================================================================
