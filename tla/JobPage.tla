------------------------------ MODULE JobPage -------------------------------
(***************************************************************************)
(* An admin page following the Import Jobs of a Job Lane: hooks/useJob.ts  *)
(* with reduceJob (lib/jobProgress.ts) and the browser's WebSocket         *)
(* (hooks/useWebSocket.ts), composed with the lane of JobLane.             *)
(*                                                                         *)
(* The page learns of a Job in three ways that race each other: the        *)
(* restore request sent when it opens, its own start requests, and the     *)
(* messages of the socket, of which React renders only the last one        *)
(* received since its previous render.  A view keeps its counts as the     *)
(* number of items processed; item names and errors are left out.          *)
(***************************************************************************)
EXTENDS JobLane

CONSTANTS Mine,      \* the kind of Job the page follows
          MaxDrops,  \* bound: times the socket drops
          NoView

VARIABLES
    view,         \* the Job shown, or NoView
    lastFinished, \* lastFinishedRef: the last end seen over the socket
    notified,     \* notifiedRef: the Job onFinished was called for last, or 0
    restore,      \* the request sent when the page opens
    start,        \* the start request in flight, inflightRef
    connected,    \* whether the socket is open
    received,     \* messages received, or missed while it was not
    lastMessage,  \* position in sent of the message not rendered yet, or 0
    drops,        \* times the socket has dropped
    shownEnd      \* history: the end each Job was shown with, or "none"

laneVars == <<job, busy, cancelCh, pc, end, final, sent, cancelAt>>
shownVars == <<view, lastFinished, notified, shownEnd>>
callVars == <<restore, start>>
socketVars == <<connected, received, lastMessage, drops>>
pageVars == <<shownVars, callVars, socketVars>>
systemVars == <<laneVars, pageVars>>

ASSUME PageAssumption ==
    /\ Mine \in Kinds
    /\ MaxDrops \in Nat

JobView == [id : 1..MaxJobs, phase : {"running"} \cup Ends, processed : 0..MaxItems]
ASSUME NoViewAssumption == NoView \notin JobView

Call(places) == [at : places, got : JobView \cup {NoView}]

PageTypeOK ==
    /\ TypeOK
    /\ view \in JobView \cup {NoView}
    /\ lastFinished \in JobView \cup {NoView}
    /\ notified \in 0..MaxJobs
    /\ restore \in Call({"sent", "answered", "done"})
    /\ start \in Call({"idle", "sent", "started", "refused", "adopting"})
    /\ connected \in BOOLEAN
    /\ received \in 0..Len(sent)
    /\ lastMessage \in 0..received
    /\ drops \in 0..MaxDrops
    /\ shownEnd \in [1..MaxJobs -> Ends \cup {"none"}]

At(place) == [at |-> place, got |-> NoView]
Answered(place, v) == [at |-> place, got |-> v]

\* The page mounts under a provider whose socket is already open.
PageInit ==
    /\ Init
    /\ view = NoView
    /\ lastFinished = NoView
    /\ notified = 0
    /\ restore = At("sent")
    /\ start = At("idle")
    /\ connected = TRUE
    /\ received = 0
    /\ lastMessage = 0
    /\ drops = 0
    /\ shownEnd = [id \in 1..MaxJobs |-> "none"]

-----------------------------------------------------------------------------
(***************************************************************************)
(* What a Job looks like to the page                                       *)
(***************************************************************************)
\* An Import Job in which every file failed shows as failed.
ViewOf(j) ==
    [id |-> j.id,
     phase |-> IF j.status = "completed" /\ j.failed > 0 /\ j.succeeded = 0
               THEN "failed" ELSE j.status,
     processed |-> j.processed]

\* ImportService.GetActiveJob: the running Job, if it is of the kind.
ActiveView ==
    IF job # NoJob /\ job.kind = Mine /\ job.status = "running" THEN ViewOf(job) ELSE NoView

Shows(id) == view # NoView /\ view.id = id
ShowsRunning == view # NoView /\ view.phase = "running"
ShowsEnd == view # NoView /\ view.phase # "running"

\* Mutant: a snapshot replaces whatever the page shows.
SnapshotReplaces(shown, v) == v
\* reduceJob on a snapshot: not after live results moved the Job on or ended it.
Snapshot(shown, v) ==
    IF /\ shown # NoView
       /\ shown.id = v.id
       /\ shown.phase # "running" \/ v.processed < shown.processed
    THEN shown
    ELSE v

\* Mutant: the complete message ends the view but keeps the counts it has.
FollowKeepsCounts(shown, m) ==
    IF shown = NoView \/ shown.id # m.job.id THEN shown
    ELSE CASE m.type = "done" -> [shown EXCEPT !.processed = m.job.processed]
           [] m.type = "complete" -> [shown EXCEPT !.phase = ViewOf(m.job).phase]
           [] m.type = "error" -> [shown EXCEPT !.phase = "failed"]
           [] OTHER -> shown
\* reduceJob on a message: only those about the Job shown change the view.
Follow(shown, m) ==
    IF shown = NoView \/ shown.id # m.job.id THEN shown
    ELSE CASE m.type = "done" -> [shown EXCEPT !.processed = m.job.processed]
           [] m.type = "complete" -> ViewOf(m.job)
           [] m.type = "error" -> [shown EXCEPT !.phase = "failed"]
           [] OTHER -> shown

\* History: an end that a step shows is remembered for the Job.
Remember ==
    shownEnd' = IF ShowsEnd' THEN [shownEnd EXCEPT ![view'.id] = view'.phase] ELSE shownEnd

\* Mutant: what a request brought is shown as it was answered.
ShowAnswer(v) == view' = Snapshot(view, v) /\ Remember
\* A Job whose end was the last one seen is shown with that end.
Show(v) ==
    /\ view' = Snapshot(view, IF lastFinished # NoView /\ lastFinished.id = v.id
                              THEN lastFinished ELSE v)
    /\ Remember

-----------------------------------------------------------------------------
(***************************************************************************)
(* The restore request                                                     *)
(***************************************************************************)
\* An answer without a running Job, like a failure, changes nothing.
AnswerRestore ==
    /\ restore.at = "sent"
    /\ restore' \in {Answered("answered", ActiveView), At("done")} \ {At("answered")}
    /\ UNCHANGED <<laneVars, shownVars, start, socketVars>>

ShowRestored ==
    /\ restore.at = "answered"
    /\ restore' = At("done")
    /\ Show(restore.got)
    /\ UNCHANGED <<laneVars, lastFinished, notified, start, socketVars>>

(***************************************************************************)
(* Start requests                                                          *)
(***************************************************************************)
\* The button is off while the page's own Job runs or starts; a click while
\* one request is in flight shares it.
ClickStart ==
    /\ start.at = "idle"
    /\ ~ ShowsRunning
    /\ start' = At("sent")
    /\ UNCHANGED <<laneVars, shownVars, restore, socketVars>>

ServeStart ==
    /\ start.at = "sent"
    /\ Start(Mine)
    /\ start' = Answered("started", ViewOf(job'))
    /\ UNCHANGED <<shownVars, restore, socketVars>>

RefuseStart ==
    /\ start.at = "sent"
    /\ busy
    /\ start' = At("refused")
    /\ UNCHANGED <<laneVars, shownVars, restore, socketVars>>

\* Another error, or an answer that never arrives.
StartFails ==
    /\ start.at \in {"sent", "started"}
    /\ start' = At("idle")
    /\ UNCHANGED <<laneVars, shownVars, restore, socketVars>>

ShowStarted ==
    /\ start.at = "started"
    /\ start' = At("idle")
    /\ Show(start.got)
    /\ UNCHANGED <<laneVars, lastFinished, notified, restore, socketVars>>

\* After a refusal the page asks for the Job that holds the lane: none when it
\* is of another kind or has ended since.
AnswerRefused ==
    /\ start.at = "refused"
    /\ start' \in {Answered("adopting", ActiveView), At("idle")} \ {At("adopting")}
    /\ UNCHANGED <<laneVars, shownVars, restore, socketVars>>

Adopt ==
    /\ start.at = "adopting"
    /\ start' = At("idle")
    /\ Show(start.got)
    /\ UNCHANGED <<laneVars, lastFinished, notified, restore, socketVars>>

\* The panel of a Job that ended is closed.
Dismiss ==
    /\ ShowsEnd
    /\ view' = NoView
    /\ UNCHANGED <<laneVars, lastFinished, notified, shownEnd, callVars, socketVars>>

-----------------------------------------------------------------------------
(***************************************************************************)
(* The socket and the render loop                                          *)
(***************************************************************************)
\* ws.onmessage: setLastMessage replaces a message not rendered yet.
Receive ==
    /\ connected
    /\ received < Len(sent)
    /\ received' = received + 1
    /\ lastMessage' = received + 1
    /\ UNCHANGED <<laneVars, shownVars, callVars, connected, drops>>

Drop ==
    /\ connected
    /\ drops < MaxDrops
    /\ connected' = FALSE
    /\ drops' = drops + 1
    /\ UNCHANGED <<laneVars, shownVars, callVars, received, lastMessage>>

\* The server sends to open connections only: what it sent meanwhile is gone.
Reconnect ==
    /\ ~ connected
    /\ connected' = TRUE
    /\ received' = Len(sent)
    /\ UNCHANGED <<laneVars, shownVars, callVars, lastMessage, drops>>

NeedsReport == ShowsEnd /\ notified # view.id

\* React renders: the effects see the view and the message of this render.  One
\* calls onFinished for an end; the other's dispatch is a microtask that runs
\* right after them.
Render ==
    /\ lastMessage # 0 \/ NeedsReport
    /\ notified' = IF NeedsReport THEN view.id ELSE notified
    /\ IF lastMessage # 0 /\ sent[lastMessage].job.kind = Mine
       THEN LET m == sent[lastMessage] IN
            /\ view' = Follow(view, m)
            /\ lastFinished' = IF m.type = "complete" THEN ViewOf(m.job) ELSE lastFinished
       ELSE UNCHANGED <<view, lastFinished>>
    /\ Remember
    /\ lastMessage' = 0
    /\ UNCHANGED <<laneVars, callVars, connected, received, drops>>

-----------------------------------------------------------------------------
\* The lane on its own; its Start is another page's or tab's.
LaneRuns ==
    /\ Next
    /\ UNCHANGED pageVars

Calls ==
    \/ AnswerRestore \/ ShowRestored
    \/ ServeStart \/ RefuseStart \/ StartFails \/ ShowStarted
    \/ AnswerRefused \/ Adopt

SystemNext ==
    \/ LaneRuns
    \/ Calls \/ ClickStart \/ Dismiss
    \/ Receive \/ Drop \/ Reconnect \/ Render

SystemSpec == PageInit /\ [][SystemNext]_systemVars

\* The Job's goroutine runs, an open socket delivers and the browser renders.
FairSystemSpec ==
    /\ SystemSpec
    /\ WF_systemVars(Execute /\ UNCHANGED pageVars)
    /\ WF_systemVars(Receive)
    /\ WF_systemVars(Render)

-----------------------------------------------------------------------------
(***************************************************************************)
(* Properties                                                              *)
(***************************************************************************)
\* The page has lost the end of Job id: it shows another Job or none, and the
\* end kept in lastFinishedRef is not this Job's, either because a later Job
\* ended since or because only the error message told this one's.
EndLost(id) ==
    /\ ~ Shows(id)
    /\ lastFinished # NoView => lastFinished.id # id
    /\ \/ lastFinished # NoView /\ lastFinished.id > id
       \/ \E i \in 1..received : sent[i].type = "error" /\ sent[i].job.id = id

\* A request's answer from before Job id ended is still on its way to the page.
AnswerOnItsWay(id) == \E call \in {restore, start} : call.got # NoView /\ call.got.id = id

\* Over dismissals, other Jobs, late answers and messages in any order, a Job
\* that was shown ended is never shown ended otherwise, and comes back as
\* running only by a request's late answer that finds its end lost
\* (jobProgress.ts:46-47, useJob.ts:61-67).
EndIsFinal ==
    [][\A id \in 1..MaxJobs : shownEnd[id] # "none" =>
          /\ shownEnd'[id] = shownEnd[id]
          /\ (ShowsRunning /\ Shows(id))' =>
                (ShowsRunning /\ Shows(id)) \/ (EndLost(id) /\ AnswerOnItsWay(id))]_systemVars

\* The Job whose end was seen last is not shown running, whichever request
\* brings it in afterwards (useJob.ts:64-66).
ShowsSeenEnd ==
    ShowsRunning /\ lastFinished # NoView => lastFinished.id # view.id

\* Whatever was missed or came late, a Job shown ended has the end and the
\* counts its complete message carries, or failed to list its items
\* (jobProgress.ts:5-6).
EndedAs(v) ==
    \E i \in DOMAIN sent :
        /\ sent[i].job.id = v.id
        /\ sent[i].job.kind = Mine
        /\ \/ sent[i].type = "complete" /\ v = ViewOf(sent[i].job)
           \/ sent[i].type = "error" /\ v.phase = "failed" /\ v.processed = 0
FinalCountsAgree == ShowsEnd => EndedAs(view)

\* "Messages React batches away before rendering are still missed; counts are
\* absolute and the complete message carries the final job, so the view
\* self-corrects" (useJob.ts:85-87): a view does not show a Job running for ever.
ViewSelfCorrects ==
    \A id \in 1..MaxJobs :
        (ShowsRunning /\ Shows(id)) ~> ~ (ShowsRunning /\ Shows(id))
=============================================================================
