--------------------------- MODULE JobPageProofs ----------------------------
(***************************************************************************)
(* The page leaves the lane as it is, so what JobLaneProofs proves of the  *)
(* lane holds under the page too; on top of it, the types of the page and  *)
(* that an end once seen is shown, is final and is the one that was told.  *)
(***************************************************************************)
EXTENDS JobPage, JobLaneProofs

\* A complete message tells how the Job ended.
EndsSent ==
    \A i \in DOMAIN sent : sent[i].type = "complete" => sent[i].job.status \in Ends

\* What the page knows ended has ended, and an answer on its way brings a Job.
Known ==
    /\ lastFinished # NoView => lastFinished.phase # "running"
    /\ restore.at = "answered" => restore.got # NoView
    /\ start.at \in {"started", "adopting"} => start.got # NoView

PageInv == IInv /\ EndsSent /\ PageTypeOK /\ Known /\ ShowsSeenEnd

-----------------------------------------------------------------------------
(***************************************************************************)
(* The lane under the page                                                 *)
(***************************************************************************)
\* Every step of the system is one of the lane or leaves the lane alone.
LEMMA LaneStep == [SystemNext]_systemVars => [Next]_vars
<1> SUFFICES ASSUME [SystemNext]_systemVars PROVE [Next]_vars
  OBVIOUS
<1>1. CASE LaneRuns
  BY <1>1 DEF LaneRuns
<1>2. CASE Calls
  <2>1. CASE ServeStart
    BY <2>1, PageAssumption DEF ServeStart, Next
  <2>2. CASE ~ ServeStart
    BY <1>2, <2>2 DEF Calls, AnswerRestore, ShowRestored, RefuseStart, StartFails, ShowStarted,
          AnswerRefused, Adopt, laneVars, vars
  <2>3. QED
    BY <2>1, <2>2
<1>3. CASE ClickStart \/ Dismiss \/ Receive \/ Drop \/ Reconnect \/ Render
  BY <1>3 DEF ClickStart, Dismiss, Receive, Drop, Reconnect, Render, laneVars, vars
<1>4. CASE UNCHANGED systemVars
  BY <1>4 DEF systemVars, laneVars, vars
<1>5. QED
  BY <1>1, <1>2, <1>3, <1>4 DEF SystemNext

\* The lane adds at most one message at a time, and a complete one tells an end.
LEMMA LaneSends ==
    ASSUME IInv, [Next]_vars
    PROVE  \/ sent' = sent
           \/ \E m : /\ sent' = Append(sent, m)
                     /\ m.type = "complete" => m.job.status \in Ends
<1>1. CASE Finish
  <2>1. job \in Job /\ end \in Ends
    BY <1>1, HeldJob DEF Finish, IInv, State, TypeOK
  <2>2. final'.status \in Ends
    BY <1>1, <2>1, EndJob DEF Finish
  <2>3. sent' = Append(sent, [type |-> "complete", job |-> final'])
    BY <1>1 DEF Finish, Send
  <2>4. QED
    BY <2>2, <2>3
<1>2. CASE ReportListFailed
  BY <1>2 DEF ReportListFailed, Send
<1>3. CASE ItemStarted
  BY <1>3 DEF ItemStarted, Send
<1>4. CASE ItemDone
  BY <1>4 DEF ItemDone, Send
<1>5. CASE \/ UNCHANGED vars
           \/ \E kind \in Kinds : Start(kind)
           \/ \E kind \in Kinds, id \in 1..MaxJobs : Cancel(kind, id)
           \/ \E n \in 0..MaxItems : List(n)
           \/ ListFails \/ Check \/ BeginItem \/ Record
           \/ \E outcome \in Outcomes : RunItem(outcome)
  BY <1>5 DEF vars, Start, Cancel, List, ListFails, Check, BeginItem, Record, RunItem
<1>6. QED
  BY <1>1, <1>2, <1>3, <1>4, <1>5 DEF Next, Execute

LEMMA LaneKeepsEnds ==
    ASSUME IInv, IInv', EndsSent, [Next]_vars
    PROVE  EndsSent' /\ Len(sent) \in Nat /\ Len(sent') \in Nat /\ Len(sent) =< Len(sent')
<1>1. sent \in Seq(Message) /\ sent' \in Seq(Message)
  BY DEF IInv, State, TypeOK
<1>2. CASE sent' = sent
  BY <1>1, <1>2 DEF EndsSent
<1>3. CASE \E m : /\ sent' = Append(sent, m)
                  /\ m.type = "complete" => m.job.status \in Ends
  <2>1. PICK m : /\ sent' = Append(sent, m)
                 /\ m.type = "complete" => m.job.status \in Ends
    BY <1>3
  <2>2. /\ Len(sent') = Len(sent) + 1
        /\ \A i \in 1..Len(sent) : sent'[i] = sent[i]
        /\ sent'[Len(sent) + 1] = m
        /\ Len(sent) \in Nat
    BY <1>1, <2>1
  <2>3. ASSUME NEW i \in DOMAIN sent', sent'[i].type = "complete"
        PROVE  sent'[i].job.status \in Ends
    <3>1. i \in 1..(Len(sent) + 1)
      BY <1>1, <2>2
    <3>2. CASE i = Len(sent) + 1
      BY <2>1, <2>2, <2>3, <3>2
    <3>3. CASE i \in 1..Len(sent)
      BY <1>1, <2>2, <2>3, <3>3 DEF EndsSent
    <3>4. QED
      BY <2>2, <3>1, <3>2, <3>3
  <2>4. QED
    BY <2>2, <2>3 DEF EndsSent
<1>4. QED
  BY <1>2, <1>3, LaneSends

-----------------------------------------------------------------------------
(***************************************************************************)
(* What the page shows                                                     *)
(***************************************************************************)
LEMMA ViewOfJob ==
    ASSUME NEW j \in Job
    PROVE  /\ ViewOf(j) \in JobView
           /\ ViewOf(j).id = j.id
           /\ j.status \in Ends => ViewOf(j).phase # "running"
BY JobFields DEF ViewOf, JobView, Ends

LEMMA ActiveViewType == TypeOK => ActiveView \in JobView \cup {NoView}
BY ViewOfJob DEF TypeOK, ActiveView

\* Whatever a request brings, the page shows a Job, and not one it has seen end.
LEMMA ShowKeeps ==
    ASSUME PageInv, NEW v \in JobView, Show(v)
    PROVE  /\ view' \in JobView
           /\ (view'.phase = "running" /\ lastFinished # NoView) => lastFinished.id # view'.id
<1> DEFINE w == IF lastFinished # NoView /\ lastFinished.id = v.id THEN lastFinished ELSE v
<1>1. w \in JobView /\ view' = Snapshot(view, w)
  BY DEF Show, PageInv, PageTypeOK
<1>2. view' = w \/ (view # NoView /\ view' = view)
  BY <1>1 DEF Snapshot
<1>3. CASE view' = w
  BY <1>1, <1>3 DEF PageInv, Known
<1>4. CASE view # NoView /\ view' = view
  BY <1>4 DEF PageInv, PageTypeOK, ShowsSeenEnd, ShowsRunning
<1>5. QED
  BY <1>2, <1>3, <1>4

LEMMA FollowType ==
    ASSUME NEW shown \in JobView \cup {NoView}, NEW m \in Message
    PROVE  /\ Follow(shown, m) \in JobView \cup {NoView}
           /\ Follow(shown, m) = NoView <=> shown = NoView
           /\ shown # NoView => Follow(shown, m).id = shown.id
           /\ Follow(shown, m) # NoView /\ Follow(shown, m).phase = "running"
                  => shown.phase = "running" \/ m.type = "complete"
           /\ (shown # NoView /\ shown.id = m.job.id /\ m.type = "complete")
                  => Follow(shown, m) = ViewOf(m.job)
<1>1. m.job \in Job /\ ViewOf(m.job) \in JobView /\ ViewOf(m.job).id = m.job.id
  BY ViewOfJob DEF Message
<1>2. CASE shown = NoView \/ shown.id # m.job.id
  BY <1>2 DEF Follow
<1>3. CASE shown # NoView /\ shown.id = m.job.id
  <2>1. shown \in JobView
    BY <1>3
  <2>2. CASE m.type = "done"
    <3>1. Follow(shown, m) = [shown EXCEPT !.processed = m.job.processed]
      BY <1>3, <2>2 DEF Follow
    <3>2. m.job.processed \in 0..MaxItems
      BY <1>1, JobFields
    <3>3. /\ [shown EXCEPT !.processed = m.job.processed] \in JobView
          /\ [shown EXCEPT !.processed = m.job.processed].id = shown.id
          /\ [shown EXCEPT !.processed = m.job.processed].phase = shown.phase
      BY <2>1, <3>2 DEF JobView
    <3>4. QED
      BY <1>3, <2>2, <3>1, <3>3, NoViewAssumption
  <2>3. CASE m.type = "complete"
    <3>1. Follow(shown, m) = ViewOf(m.job)
      BY <1>3, <2>3 DEF Follow
    <3>2. QED
      BY <1>1, <1>3, <2>3, <3>1, NoViewAssumption
  <2>4. CASE m.type = "error"
    <3>1. Follow(shown, m) = [shown EXCEPT !.phase = "failed"]
      BY <1>3, <2>4 DEF Follow
    <3>2. /\ [shown EXCEPT !.phase = "failed"] \in JobView
          /\ [shown EXCEPT !.phase = "failed"].id = shown.id
          /\ [shown EXCEPT !.phase = "failed"].phase = "failed"
      BY <2>1 DEF JobView, Ends
    <3>3. QED
      BY <1>3, <2>4, <3>1, <3>2, NoViewAssumption
  <2>5. CASE m.type = "started"
    <3>1. Follow(shown, m) = shown
      BY <1>3, <2>5 DEF Follow
    <3>2. QED
      BY <1>3, <2>5, <3>1
  <2>6. QED
    BY <2>2, <2>3, <2>4, <2>5 DEF Message
<1>4. QED
  BY <1>2, <1>3

-----------------------------------------------------------------------------
(***************************************************************************)
(* Every step keeps the invariant.                                         *)
(***************************************************************************)
LEMMA InitPageInv == PageInit => PageInv
<1> SUFFICES ASSUME PageInit PROVE PageInv
  OBVIOUS
<1>1. IInv /\ TypeOK /\ sent = <<>>
  BY InitIInv DEF PageInit, Init, IInv, State
<1>2. EndsSent
  BY <1>1 DEF EndsSent
<1>3. PageTypeOK
  BY <1>1, PageAssumption, BoundsAssumption DEF PageInit, PageTypeOK, Call, At
<1>4. QED
  BY <1>1, <1>2, <1>3 DEF PageInit, PageInv, Known, ShowsSeenEnd, ShowsRunning, At

\* The requests: a view is shown, or the request alone moves on.
LEMMA CallsKeep ==
    ASSUME PageInv, TypeOK', Calls \/ ClickStart
    PROVE  /\ view' \in JobView \cup {NoView}
           /\ restore' \in Call({"sent", "answered", "done"})
           /\ start' \in Call({"idle", "sent", "started", "refused", "adopting"})
           /\ Known' /\ ShowsSeenEnd'
           /\ UNCHANGED <<lastFinished, notified, socketVars>>
<1> USE DEF PageInv, PageTypeOK
<1>1. /\ At("done") \in Call({"sent", "answered", "done"}) /\ At("done").at = "done"
      /\ \A place \in {"idle", "sent", "refused"} :
             At(place) \in Call({"idle", "sent", "started", "refused", "adopting"}) /\ At(place).at = place
  BY DEF At, Call
<1>2. /\ At("answered") = Answered("answered", NoView)
      /\ At("adopting") = Answered("adopting", NoView)
      /\ \A v \in JobView \cup {NoView} :
             /\ Answered("answered", v) \in Call({"sent", "answered", "done"})
             /\ \A place \in {"started", "adopting"} :
                   Answered(place, v) \in Call({"idle", "sent", "started", "refused", "adopting"})
             /\ \A place \in {"answered", "started", "adopting"} :
                   Answered(place, v).at = place /\ Answered(place, v).got = v
  BY DEF At, Answered, Call
<1>3. CASE AnswerRestore
  <2>1. UNCHANGED <<view, lastFinished, notified, start, socketVars>>
    BY <1>3 DEF AnswerRestore, shownVars
  <2>2. restore' = At("done") \/ (restore' = Answered("answered", ActiveView) /\ ActiveView # NoView)
    BY <1>2, <1>3 DEF AnswerRestore
  <2>3. restore' \in Call({"sent", "answered", "done"})
        /\ (restore'.at = "answered" => restore'.got # NoView)
    BY <1>1, <1>2, <2>2, ActiveViewType
  <2>4. QED
    BY <2>1, <2>3 DEF Known, ShowsSeenEnd, ShowsRunning
<1>4. CASE AnswerRefused
  <2>1. UNCHANGED <<view, lastFinished, notified, restore, socketVars>>
    BY <1>4 DEF AnswerRefused, shownVars
  <2>2. start' = At("idle") \/ (start' = Answered("adopting", ActiveView) /\ ActiveView # NoView)
    BY <1>2, <1>4 DEF AnswerRefused
  <2>3. start' \in Call({"idle", "sent", "started", "refused", "adopting"})
        /\ (start'.at \in {"started", "adopting"} => start'.got # NoView)
    BY <1>1, <1>2, <2>2, ActiveViewType
  <2>4. QED
    BY <2>1, <2>3 DEF Known, ShowsSeenEnd, ShowsRunning
<1>5. CASE ServeStart
  <2>1. UNCHANGED <<view, lastFinished, notified, restore, socketVars>>
    BY <1>5 DEF ServeStart, shownVars
  <2>2. job' \in Job
    <3>1. job' # NoJob
      <4>1. job' = NewJob(Started + 1, Mine) /\ Started < MaxJobs
        BY <1>5 DEF ServeStart, Start
      <4>2. Started \in Nat
        BY JobFields, BoundsAssumption DEF Started, TypeOK
      <4>3. job' \in Job
        BY <4>1, <4>2, PageAssumption, BoundsAssumption DEF NewJob, Job
      <4>4. QED
        BY <4>3, NoJobAssumption
    <3>2. QED
      BY <3>1 DEF TypeOK
  <2>3. start' = Answered("started", ViewOf(job')) /\ ViewOf(job') \in JobView
    BY <1>5, <2>2, ViewOfJob DEF ServeStart
  <2>4. start' \in Call({"idle", "sent", "started", "refused", "adopting"})
        /\ start'.got # NoView
    BY <1>2, <2>3, NoViewAssumption
  <2>5. QED
    BY <2>1, <2>4 DEF Known, ShowsSeenEnd, ShowsRunning
<1>6. CASE ClickStart \/ RefuseStart \/ StartFails
  <2>1. /\ UNCHANGED <<view, lastFinished, notified, restore, socketVars>>
        /\ start' \in {At("sent"), At("refused"), At("idle")}
    BY <1>6 DEF ClickStart, RefuseStart, StartFails, shownVars
  <2>2. QED
    BY <1>1, <2>1 DEF Known, ShowsSeenEnd, ShowsRunning
<1>7. CASE ShowRestored
  <2>1. /\ UNCHANGED <<lastFinished, notified, start, socketVars>>
        /\ restore' = At("done")
        /\ restore.got \in JobView /\ Show(restore.got)
    BY <1>7 DEF ShowRestored, Known, Call
  <2>2. view' \in JobView
        /\ ((view'.phase = "running" /\ lastFinished # NoView) => lastFinished.id # view'.id)
    BY <2>1, ShowKeeps
  <2>3. QED
    BY <1>1, <2>1, <2>2 DEF Known, ShowsSeenEnd, ShowsRunning
<1>8. CASE ShowStarted \/ Adopt
  <2>1. /\ UNCHANGED <<lastFinished, notified, restore, socketVars>>
        /\ start' = At("idle")
        /\ start.got \in JobView /\ Show(start.got)
    BY <1>8 DEF ShowStarted, Adopt, Known, Call
  <2>2. view' \in JobView
        /\ ((view'.phase = "running" /\ lastFinished # NoView) => lastFinished.id # view'.id)
    BY <2>1, ShowKeeps
  <2>3. QED
    BY <1>1, <2>1, <2>2 DEF Known, ShowsSeenEnd, ShowsRunning
<1>9. QED
  BY <1>3, <1>4, <1>5, <1>6, <1>7, <1>8 DEF Calls

\* The effects of a render: the message of a Job's end is taken into the ref and
\* into the view together.
LEMMA RenderKeeps ==
    ASSUME PageInv, Render
    PROVE  /\ view' \in JobView \cup {NoView}
           /\ lastFinished' \in JobView \cup {NoView}
           /\ notified' \in 0..MaxJobs
           /\ Known' /\ ShowsSeenEnd'
<1> USE DEF PageInv, PageTypeOK
<1>1. notified' \in 0..MaxJobs
  BY BoundsAssumption DEF Render, NeedsReport, ShowsEnd, JobView
<1>2. UNCHANGED <<restore, start>>
  BY DEF Render, callVars
<1>3. CASE UNCHANGED <<view, lastFinished>>
  BY <1>1, <1>2, <1>3 DEF Known, ShowsSeenEnd, ShowsRunning
<1>4. CASE lastMessage # 0 /\ sent[lastMessage].job.kind = Mine
  <2> DEFINE m == sent[lastMessage]
  <2>1. lastMessage \in DOMAIN sent /\ m \in Message
    <3>1. sent \in Seq(Message) /\ Len(sent) \in Nat /\ received \in 0..Len(sent) /\ lastMessage \in 0..received
      BY DEF TypeOK
    <3>2. lastMessage \in 1..Len(sent)
      BY <1>4, <3>1
    <3>3. QED
      BY <3>1, <3>2
  <2>2. /\ view' = Follow(view, m)
        /\ lastFinished' = IF m.type = "complete" THEN ViewOf(m.job) ELSE lastFinished
    BY <1>4 DEF Render
  <2>3. /\ view' \in JobView \cup {NoView}
        /\ view' = NoView <=> view = NoView
        /\ view # NoView => view'.id = view.id
        /\ view' # NoView /\ view'.phase = "running" => view.phase = "running" \/ m.type = "complete"
        /\ (view # NoView /\ view.id = m.job.id /\ m.type = "complete") => view' = ViewOf(m.job)
    BY <2>1, <2>2, FollowType
  <2>4. CASE m.type = "complete"
    <3>1. m.job \in Job /\ m.job.status \in Ends
      BY <2>1, <2>4 DEF EndsSent, Message
    <3>2. ViewOf(m.job) \in JobView /\ ViewOf(m.job).phase # "running" /\ ViewOf(m.job).id = m.job.id
      BY <3>1, ViewOfJob
    <3>3. Known' /\ lastFinished' \in JobView
      BY <1>2, <2>2, <2>4, <3>2 DEF Known
    <3>4. ShowsSeenEnd'
      BY <2>2, <2>3, <2>4, <3>2 DEF ShowsSeenEnd, ShowsRunning
    <3>5. QED
      BY <1>1, <2>3, <3>3, <3>4
  <2>5. CASE m.type # "complete"
    <3>1. lastFinished' = lastFinished
      BY <2>2, <2>5
    <3>2. ShowsSeenEnd'
      BY <2>3, <2>5, <3>1 DEF ShowsSeenEnd, ShowsRunning
    <3>3. QED
      BY <1>1, <1>2, <2>3, <3>1, <3>2 DEF Known
  <2>6. QED
    BY <2>4, <2>5
<1>5. QED
  BY <1>3, <1>4 DEF Render

\* What was received stays received, whatever the lane sends.
LEMMA SocketKeeps ==
    ASSUME PageInv, [SystemNext]_systemVars,
           Len(sent) \in Nat, Len(sent') \in Nat, Len(sent) =< Len(sent')
    PROVE  /\ connected' \in BOOLEAN /\ drops' \in 0..MaxDrops
           /\ received' \in 0..Len(sent') /\ lastMessage' \in 0..received'
<1> USE PageAssumption DEF PageInv, PageTypeOK
<1>1. CASE UNCHANGED socketVars
  BY <1>1 DEF socketVars
<1>2. CASE Receive
  <2>1. received < Len(sent) /\ received' = received + 1 /\ lastMessage' = received + 1
        /\ UNCHANGED <<sent, connected, drops>>
    BY <1>2 DEF Receive, laneVars
  <2>2. QED
    BY <2>1
<1>3. CASE Drop
  <2>1. connected' = FALSE /\ drops < MaxDrops /\ drops' = drops + 1
        /\ UNCHANGED <<sent, received, lastMessage>>
    BY <1>3 DEF Drop, laneVars
  <2>2. drops' \in 0..MaxDrops
    BY <2>1
  <2>3. QED
    BY <2>1, <2>2
<1>4. CASE Reconnect
  BY <1>4 DEF Reconnect, laneVars
<1>5. CASE Render
  BY <1>5 DEF Render, laneVars
<1>6. CASE UNCHANGED systemVars
  BY <1>1, <1>6 DEF systemVars, pageVars
<1>7. CASE LaneRuns
  BY <1>1, <1>7 DEF LaneRuns, pageVars
<1>8. CASE Calls \/ ClickStart \/ Dismiss
  BY <1>1, <1>8 DEF Calls, ClickStart, Dismiss, AnswerRestore, ShowRestored, ServeStart, RefuseStart,
        StartFails, ShowStarted, AnswerRefused, Adopt
<1>9. QED
  BY <1>2, <1>3, <1>4, <1>5, <1>6, <1>7, <1>8 DEF SystemNext

\* An end is remembered by the step that shows it, for the Job it shows.
LEMMA RememberStep ==
    ASSUME [SystemNext]_systemVars
    PROVE  \/ /\ shownEnd' = shownEnd
              /\ view' = view \/ ~ ShowsEnd'
           \/ /\ ShowsEnd'
              /\ shownEnd' = [shownEnd EXCEPT ![view'.id] = view'.phase]
<1>1. CASE Remember
  BY <1>1 DEF Remember
<1>2. CASE UNCHANGED <<view, shownEnd>>
  BY <1>2
<1>3. CASE Dismiss
  BY <1>3 DEF Dismiss, ShowsEnd
<1>4. CASE ShowRestored \/ ShowStarted \/ Adopt \/ Render
  BY <1>1, <1>4 DEF ShowRestored, ShowStarted, Adopt, Render, Show
<1>5. QED
  BY <1>2, <1>3, <1>4 DEF SystemNext, Calls, LaneRuns, AnswerRestore, ServeStart, RefuseStart, StartFails,
        AnswerRefused, ClickStart, Receive, Drop, Reconnect, systemVars, pageVars, shownVars

LEMMA RememberedType ==
    ASSUME PageTypeOK, [SystemNext]_systemVars, view' \in JobView \cup {NoView}
    PROVE  shownEnd' \in [1..MaxJobs -> Ends \cup {"none"}]
<1>1. CASE shownEnd' = shownEnd
  BY <1>1 DEF PageTypeOK
<1>2. CASE ShowsEnd' /\ shownEnd' = [shownEnd EXCEPT ![view'.id] = view'.phase]
  <2>1. view'.id \in 1..MaxJobs /\ view'.phase \in Ends
    BY <1>2 DEF ShowsEnd, JobView
  <2>2. QED
    BY <1>2, <2>1 DEF PageTypeOK
<1>3. QED
  BY <1>1, <1>2, RememberStep

LEMMA NextPageInv == PageInv /\ [SystemNext]_systemVars => PageInv'
<1> SUFFICES ASSUME PageInv, [SystemNext]_systemVars PROVE PageInv'
  OBVIOUS
<1>1. [Next]_vars
  BY LaneStep
<1>2. IInv /\ IInv' /\ TypeOK'
  BY <1>1, NextIInv DEF PageInv, IInv, State
<1>3. EndsSent' /\ Len(sent) \in Nat /\ Len(sent') \in Nat /\ Len(sent) =< Len(sent')
  BY <1>1, <1>2, LaneKeepsEnds DEF PageInv
<1>4. /\ connected' \in BOOLEAN /\ drops' \in 0..MaxDrops
      /\ received' \in 0..Len(sent') /\ lastMessage' \in 0..received'
  BY <1>3, SocketKeeps
<1>5. /\ view' \in JobView \cup {NoView}
      /\ lastFinished' \in JobView \cup {NoView}
      /\ notified' \in 0..MaxJobs
      /\ restore' \in Call({"sent", "answered", "done"})
      /\ start' \in Call({"idle", "sent", "started", "refused", "adopting"})
      /\ Known' /\ ShowsSeenEnd'
  <2>1. CASE Calls \/ ClickStart
    BY <1>2, <2>1, CallsKeep DEF PageInv, PageTypeOK
  <2>2. CASE Render
    <3>1. UNCHANGED <<restore, start>>
      BY <2>2 DEF Render, callVars
    <3>2. QED
      BY <2>2, <3>1, RenderKeeps DEF PageInv, PageTypeOK
  <2>3. CASE Dismiss
    BY <2>3 DEF Dismiss, callVars, PageInv, PageTypeOK, Known, ShowsSeenEnd, ShowsRunning
  <2>4. CASE UNCHANGED <<shownVars, callVars>>
    BY <2>4 DEF shownVars, callVars, PageInv, PageTypeOK, Known, ShowsSeenEnd, ShowsRunning
  <2>5. CASE Receive \/ Drop \/ Reconnect \/ LaneRuns \/ UNCHANGED systemVars
    BY <2>4, <2>5 DEF Receive, Drop, Reconnect, LaneRuns, systemVars, pageVars
  <2>6. QED
    BY <2>1, <2>2, <2>3, <2>5 DEF SystemNext
<1>6. PageTypeOK'
  <2>1. shownEnd' \in [1..MaxJobs -> Ends \cup {"none"}]
    BY <1>5, RememberedType DEF PageInv
  <2>2. QED
    BY <1>2, <1>4, <1>5, <2>1 DEF PageTypeOK
<1>7. QED
  BY <1>2, <1>3, <1>5, <1>6 DEF PageInv

LEMMA PageInvariance == SystemSpec => []PageInv
BY InitPageInv, NextPageInv, PTL DEF SystemSpec

-----------------------------------------------------------------------------
(***************************************************************************)
(* What has been said of a Job.  Nobody knows of more processed items than *)
(* the Job has, and a Job that could not list its items has none.          *)
(***************************************************************************)
Behind(id, n) ==
    /\ id =< Started
    /\ job # NoJob /\ id = Started => n =< job.processed
    /\ \A i \in 1..Len(sent) : sent[i].type = "error" /\ sent[i].job.id = id => n = 0

Told ==
    /\ job # NoJob => Behind(job.id, job.processed)
    /\ \A i \in 1..Len(sent) : Behind(sent[i].job.id, sent[i].job.processed)
    /\ \A i \in 1..Len(sent) :
          sent[i].type = "error" /\ sent[i].job.id = Started => pc \in {"finish", "record", "none"}

\* A step of the lane starts a Job, tells of the one that runs, or moves it on.
LEMMA LaneMoves ==
    ASSUME IInv, [Next]_vars
    PROVE  \/ /\ Started' = Started + 1 /\ job' # NoJob /\ job'.processed = 0
              /\ sent' = sent
           \/ \E m : /\ sent' = Append(sent, m) /\ job' = job /\ job # NoJob
                     /\ m.job.id = job.id /\ m.job.processed = job.processed
                     /\ m.type = "error" => job.processed = 0 /\ pc' = "finish"
                     /\ pc' \in {"finish", "record"} \/ pc \notin {"finish", "record", "none"}
           \/ /\ sent' = sent
              /\ job' = NoJob <=> job = NoJob
              /\ Started' = Started
              /\ job # NoJob => job.processed =< job'.processed
              /\ job # NoJob /\ pc \in {"finish", "record", "none"} =>
                    job'.processed = job.processed /\ pc' \in {"finish", "record", "none"}
<1>1. CASE \E kind \in Kinds : Start(kind)
  <2>1. PICK kind \in Kinds : Start(kind)
    BY <1>1
  <2>2. job' = NewJob(Started + 1, kind) /\ Started < MaxJobs /\ sent' = sent
    BY <2>1 DEF Start
  <2>3. Started \in Nat
    BY JobFields, BoundsAssumption DEF IInv, State, TypeOK, Started
  <2>4. job' \in Job /\ job'.id = Started + 1 /\ job'.processed = 0
    BY <2>2, <2>3, BoundsAssumption DEF NewJob, Job
  <2>5. job' # NoJob
    BY <2>4, NoJobAssumption
  <2>6. QED
    BY <2>2, <2>4, <2>5 DEF Started
<1>2. CASE UNCHANGED vars \/ \E kind \in Kinds, id \in 1..MaxJobs : Cancel(kind, id)
  <2>1. UNCHANGED <<job, pc, sent>>
    BY <1>2 DEF vars, Cancel
  <2>2. job # NoJob => job.processed \in 0..MaxItems
    BY JobFields DEF IInv, State, TypeOK
  <2>3. QED
    BY <2>1, <2>2 DEF Started
<1>3. CASE Execute
  <2>1. job \in Job /\ job # NoJob
    BY <1>3, HeldJob DEF IInv, State, Held, Execute, List, ListFails, ReportListFailed, Check, BeginItem,
          ItemStarted, RunItem, ItemDone, Finish, Record
  <2>2. /\ job.processed \in 0..MaxItems /\ job.current \in 0..MaxItems /\ job.id \in 1..MaxJobs
        /\ end \in Ends
    BY <2>1, JobFields DEF IInv, State, TypeOK
  <2>3. CASE \E n \in 0..MaxItems : List(n)
    <3>1. PICK n \in 0..MaxItems : List(n)
      BY <2>3
    <3>2. job' \in Job /\ job'.id = job.id /\ job'.processed = job.processed /\ sent' = sent /\ pc = "list"
      BY <2>1, <3>1, SetTotal DEF List
    <3>3. QED
      BY <2>1, <2>2, <3>2, NoJobAssumption DEF Started
  <2>4. CASE ListFails
    <3>1. job' \in Job /\ job'.id = job.id /\ job'.processed = job.processed /\ sent' = sent /\ pc = "list"
      BY <2>1, <2>4, SetListError DEF ListFails
    <3>2. QED
      BY <2>1, <2>2, <3>1, NoJobAssumption DEF Started
  <2>5. CASE ReportListFailed
    <3>1. job.processed = 0
      BY <2>1, <2>2, <2>5, JobFields DEF ReportListFailed, IInv, State, Progress
    <3>2. DEFINE m == [type |-> "error", job |-> [job EXCEPT !.status = end]]
    <3>3. /\ sent' = Append(sent, m) /\ job' = job /\ pc' = "finish"
      BY <2>5 DEF ReportListFailed, Send
    <3>4. m.job.id = job.id /\ m.job.processed = job.processed
      BY <2>1, <2>2, SetStatus
    <3>5. QED
      BY <2>1, <3>1, <3>3, <3>4
  <2>6. CASE Check
    BY <2>1, <2>2, <2>6 DEF Check, Started
  <2>7. CASE BeginItem
    <3>1. job.processed < job.total /\ job.current = job.processed /\ job.total \in 0..MaxItems
      BY <2>1, <2>7, JobFields DEF BeginItem, IInv, State, Progress
    <3>2. job.current + 1 \in 0..MaxItems /\ job' = [job EXCEPT !.current = job.current + 1]
      BY <2>2, <2>7, <3>1, BoundsAssumption DEF BeginItem
    <3>3. job' \in Job /\ job'.id = job.id /\ job'.processed = job.processed /\ sent' = sent /\ pc = "begin"
      BY <2>1, <2>7, <3>2, SetCurrent DEF BeginItem
    <3>4. QED
      BY <2>1, <2>2, <3>3, NoJobAssumption DEF Started
  <2>8. CASE ItemStarted
    <3>1. /\ sent' = Append(sent, [type |-> "started", job |-> job]) /\ job' = job /\ pc = "announce"
      BY <2>8 DEF ItemStarted, Send
    <3>2. QED
      BY <2>1, <3>1
  <2>9. CASE \E outcome \in Outcomes : RunItem(outcome)
    <3>1. PICK outcome \in Outcomes : RunItem(outcome)
      BY <2>9
    <3>2. pc = "run" /\ sent' = sent
          /\ job' = [job EXCEPT !.processed = job.current, ![outcome] = @ + 1]
      BY <3>1 DEF RunItem
    <3>3. job.current = job.processed + 1
      BY <2>1, <3>2 DEF IInv, State, Progress
    <3>4. job'.id = job.id /\ job'.processed = job.current
      BY <2>1, <3>2 DEF Job, Outcomes
    <3>5. job' # NoJob
      <4>1. [Next]_vars /\ pc' = "report"
        BY <3>1 DEF RunItem
      <4>2. IInv'
        BY NextIInv
      <4>3. QED
        BY <4>1, <4>2 DEF IInv, State, Held
    <3>6. QED
      BY <2>1, <2>2, <3>2, <3>3, <3>4, <3>5 DEF Started
  <2>10. CASE ItemDone
    <3>1. CASE sent' = sent
      BY <2>1, <2>2, <2>10, <3>1 DEF ItemDone, Started
    <3>2. CASE sent' = Append(sent, [type |-> "done", job |-> job])
      BY <2>1, <2>10, <3>2 DEF ItemDone
    <3>3. QED
      BY <2>10, <3>1, <3>2 DEF ItemDone, Send
  <2>11. CASE Finish
    <3>1. DEFINE m == [type |-> "complete", job |-> [job EXCEPT !.status = end, !.current = 0]]
    <3>2. /\ sent' = Append(sent, m) /\ job' = job /\ pc' = "record"
      BY <2>11 DEF Finish, Send
    <3>3. m.job.id = job.id /\ m.job.processed = job.processed
      BY <2>1, <2>2, EndJob
    <3>4. QED
      BY <2>1, <3>2, <3>3
  <2>12. CASE Record
    <3>1. final.status \in Ends /\ job' = [job EXCEPT !.status = final.status, !.current = 0]
          /\ sent' = sent /\ pc' = "none"
      <4>1. final = [job EXCEPT !.status = end, !.current = 0]
        BY <2>12 DEF Record, IInv, State, Progress
      <4>2. final.status = end
        BY <2>1, <2>2, <4>1, EndJob
      <4>3. QED
        BY <2>2, <2>12, <4>2 DEF Record
    <3>2. job' \in Job /\ job'.id = job.id /\ job'.processed = job.processed
      BY <2>1, <3>1, EndJob
    <3>3. QED
      BY <2>1, <2>2, <3>1, <3>2, NoJobAssumption DEF Started
  <2>13. QED
    BY <1>3, <2>3, <2>4, <2>5, <2>6, <2>7, <2>8, <2>9, <2>10, <2>11, <2>12 DEF Execute
<1>4. QED
  BY <1>1, <1>2, <1>3 DEF Next

LEMMA StartedType == IInv => Started \in Nat /\ (job # NoJob => Started = job.id /\ job.processed \in Nat)
BY JobFields, BoundsAssumption DEF IInv, State, TypeOK, Started

LEMMA StartedNext == IInv' => Started' \in Nat /\ (job' # NoJob => Started' = job'.id /\ job'.processed \in Nat)
BY JobFields, BoundsAssumption DEF IInv, State, TypeOK, Started

\* Behind after a step, for values that are the same before and after it.
BehindNext(id, n) ==
    /\ id =< Started'
    /\ job' # NoJob /\ id = Started' => n =< job'.processed
    /\ \A i \in 1..Len(sent') : sent'[i].type = "error" /\ sent'[i].job.id = id => n = 0

LEMMA BehindKept ==
    ASSUME IInv, IInv', Told, [Next]_vars, NEW id \in 1..MaxJobs, NEW n \in 0..MaxItems, Behind(id, n)
    PROVE  BehindNext(id, n)
<1>1. /\ Started \in Nat /\ id \in Nat /\ n \in Nat
      /\ job # NoJob => Started = job.id /\ job.processed \in Nat
      /\ job' # NoJob => job'.processed \in Nat
  BY StartedType, StartedNext DEF Behind
<1>2. CASE /\ Started' = Started + 1 /\ job' # NoJob /\ job'.processed = 0
           /\ sent' = sent
  BY <1>1, <1>2 DEF Behind, BehindNext
<1>3. CASE /\ sent' = sent
           /\ job' = NoJob <=> job = NoJob
           /\ Started' = Started
           /\ job # NoJob => job.processed =< job'.processed
  BY <1>1, <1>3 DEF Behind, BehindNext
<1>4. ASSUME NEW m, sent' = Append(sent, m), job' = job, job # NoJob, m.job.id = job.id,
             m.type = "error" => job.processed = 0
      PROVE  BehindNext(id, n)
  <2>1. /\ Len(sent') = Len(sent) + 1
        /\ \A i \in 1..Len(sent) : sent'[i] = sent[i]
        /\ sent'[Len(sent) + 1] = m
        /\ Len(sent) \in Nat
    BY <1>4 DEF IInv, State, TypeOK
  <2>2. Started' = Started
    BY <1>4 DEF Started
  <2>3. ASSUME NEW i \in 1..Len(sent'), sent'[i].type = "error", sent'[i].job.id = id
        PROVE  n = 0
    <3>1. CASE i \in 1..Len(sent)
      BY <2>1, <2>3, <3>1 DEF Behind
    <3>2. CASE i = Len(sent) + 1
      BY <1>1, <1>4, <2>1, <2>3, <3>2 DEF Behind
    <3>3. QED
      BY <2>1, <3>1, <3>2
  <2>4. QED
    BY <1>4, <2>2, <2>3 DEF Behind, BehindNext
<1>5. QED
  BY <1>2, <1>3, <1>4, LaneMoves

LEMMA TellingKeepsTold ==
    ASSUME IInv, IInv', Told, [Next]_vars
    PROVE  Told'
<1>1. /\ sent \in Seq(Message) /\ sent' \in Seq(Message) /\ Len(sent) \in Nat
      /\ \A i \in 1..Len(sent) : sent[i].job \in Job
      /\ job # NoJob => job \in Job
  <2>1. /\ sent \in Seq(Message) /\ sent' \in Seq(Message)
        /\ job # NoJob => job \in Job
    BY DEF IInv, State, TypeOK
  <2>2. Len(sent) \in Nat /\ \A i \in 1..Len(sent) : sent[i] \in Message
    BY <2>1
  <2>3. QED
    BY <2>1, <2>2 DEF Message
<1>2. /\ \A i \in 1..Len(sent) : sent[i].job.id \in 1..MaxJobs /\ sent[i].job.processed \in 0..MaxItems
      /\ job # NoJob => job.id \in 1..MaxJobs /\ job.processed \in 0..MaxItems
  BY <1>1, JobFields
<1>3. /\ Started \in Nat
      /\ job # NoJob => Started = job.id /\ job.processed \in Nat
      /\ job' # NoJob => Started' = job'.id /\ job'.processed \in Nat
  BY StartedType, StartedNext
<1>4. /\ \A i \in 1..Len(sent) : Behind(sent[i].job.id, sent[i].job.processed)
      /\ job # NoJob => Behind(job.id, job.processed)
      /\ \A i \in 1..Len(sent) :
            sent[i].type = "error" /\ sent[i].job.id = Started => pc \in {"finish", "record", "none"}
  BY DEF Told
<1>5. ASSUME NEW id \in 1..MaxJobs, NEW n \in 0..MaxItems, Behind(id, n)
      PROVE  BehindNext(id, n)
  BY <1>5, BehindKept
<1>6. \A i \in 1..Len(sent) : Behind(sent[i].job.id, sent[i].job.processed) /\ sent[i].job.id =< Started
  BY <1>4 DEF Behind
<1>7. ASSUME NEW i \in 1..Len(sent), sent'[i] = sent[i]
      PROVE  BehindNext(sent'[i].job.id, sent'[i].job.processed)
  BY <1>2, <1>4, <1>5, <1>7
<1>8. CASE /\ Started' = Started + 1 /\ job' # NoJob /\ job'.processed = 0
           /\ sent' = sent
  <2>1. \A i \in 1..Len(sent') : BehindNext(sent'[i].job.id, sent'[i].job.processed)
    BY <1>7, <1>8
  <2>2. \A i \in 1..Len(sent') : sent'[i].job.id # Started'
    BY <1>2, <1>3, <1>6, <1>8
  <2>3. BehindNext(job'.id, job'.processed)
    BY <1>3, <1>8, <2>2 DEF BehindNext
  <2>4. QED
    BY <2>1, <2>2, <2>3 DEF Told, Behind, BehindNext
<1>9. CASE /\ sent' = sent
           /\ job' = NoJob <=> job = NoJob
           /\ Started' = Started
           /\ job # NoJob => job.processed =< job'.processed
           /\ job # NoJob /\ pc \in {"finish", "record", "none"} =>
                 job'.processed = job.processed /\ pc' \in {"finish", "record", "none"}
  <2>1. \A i \in 1..Len(sent') : BehindNext(sent'[i].job.id, sent'[i].job.processed)
    BY <1>7, <1>9
  <2>2. \A i \in 1..Len(sent) : job = NoJob => sent[i].job.id \notin 1..MaxJobs
    BY <1>2, <1>3, <1>6 DEF Started
  <2>3. \A i \in 1..Len(sent') :
            sent'[i].type = "error" /\ sent'[i].job.id = Started' =>
               pc' \in {"finish", "record", "none"} /\ job'.processed = job.processed
    BY <1>2, <1>4, <1>9, <2>2
  <2>4. job' # NoJob => BehindNext(job'.id, job'.processed)
    <3>1. SUFFICES ASSUME job' # NoJob PROVE BehindNext(job'.id, job'.processed)
      OBVIOUS
    <3>2. \A i \in 1..Len(sent') : sent'[i].type = "error" /\ sent'[i].job.id = job'.id => job'.processed = 0
      BY <1>3, <1>4, <1>9, <2>3, <3>1 DEF Behind
    <3>3. QED
      BY <1>3, <1>9, <3>1, <3>2 DEF BehindNext
  <2>5. QED
    BY <2>1, <2>3, <2>4 DEF Told, Behind, BehindNext
<1>10. ASSUME NEW m, sent' = Append(sent, m), job' = job, job # NoJob,
              m.job.id = job.id, m.job.processed = job.processed,
              m.type = "error" => job.processed = 0 /\ pc' = "finish",
              pc' \in {"finish", "record"} \/ pc \notin {"finish", "record", "none"}
       PROVE  Told'
  <2>1. /\ Len(sent') = Len(sent) + 1
        /\ \A i \in 1..Len(sent) : sent'[i] = sent[i]
        /\ sent'[Len(sent) + 1] = m
    BY <1>1, <1>10
  <2>2. Started' = Started /\ Started = job.id
    BY <1>3, <1>10 DEF Started
  <2>3. BehindNext(job'.id, job'.processed)
    BY <1>2, <1>4, <1>5, <1>10
  <2>4. ASSUME NEW i \in 1..Len(sent')
        PROVE  /\ BehindNext(sent'[i].job.id, sent'[i].job.processed)
               /\ sent'[i].type = "error" /\ sent'[i].job.id = Started' => pc' \in {"finish", "record", "none"}
    <3>1. CASE i \in 1..Len(sent)
      BY <1>4, <1>7, <1>10, <2>1, <2>2, <3>1
    <3>2. CASE i = Len(sent) + 1
      <4>1. sent'[i] = m
        BY <2>1, <3>2
      <4>2. BehindNext(sent'[i].job.id, sent'[i].job.processed)
        BY <1>10, <2>3, <4>1
      <4>3. QED
        BY <1>10, <4>1, <4>2
    <3>3. QED
      BY <1>1, <2>1, <3>1, <3>2
  <2>5. QED
    BY <2>3, <2>4 DEF Told, Behind, BehindNext
<1>11. QED
  BY <1>8, <1>9, <1>10, LaneMoves

-----------------------------------------------------------------------------
(***************************************************************************)
(* The ends a page shows.  What it has on its way is never ahead of the    *)
(* Job, and each end it knows was told by a message rendered before the    *)
(* one that waits to be rendered.                                          *)
(***************************************************************************)
TellsEnd(m, v) ==
    /\ m.job.id = v.id
    /\ m.job.kind = Mine
    /\ \/ m.type = "complete" /\ v = ViewOf(m.job)
       \/ m.type = "error" /\ v.phase = "failed" /\ v.processed = 0

EndedBy(v) == \E i \in 1..received : (lastMessage # 0 => i < lastMessage) /\ TellsEnd(sent[i], v)
EndedByNext(v) == \E i \in 1..received' : (lastMessage' # 0 => i < lastMessage') /\ TellsEnd(sent'[i], v)

RunningView(v) == v.phase = "running" /\ Behind(v.id, v.processed)
RunningViewNext(v) == v.phase = "running" /\ BehindNext(v.id, v.processed)

Views ==
    /\ view # NoView => Behind(view.id, view.processed)
    /\ lastFinished # NoView => Behind(lastFinished.id, lastFinished.processed) /\ EndedBy(lastFinished)
    /\ ShowsEnd => EndedBy(view)
    /\ restore.at = "answered" => RunningView(restore.got)
    /\ start.at \in {"started", "adopting"} => RunningView(start.got)

\* Views after a step, with the views it leaves named.
ViewNext(v) ==
    /\ BehindNext(v.id, v.processed)
    /\ v.phase # "running" => EndedByNext(v)

LEMMA ViewsNext ==
    ASSUME view' # NoView => ViewNext(view'),
           lastFinished' # NoView => BehindNext(lastFinished'.id, lastFinished'.processed) /\ EndedByNext(lastFinished'),
           restore'.at = "answered" => RunningViewNext(restore'.got),
           start'.at \in {"started", "adopting"} => RunningViewNext(start'.got)
    PROVE  Views'
BY DEF Views, ViewNext, ShowsEnd, RunningView, RunningViewNext, Behind, BehindNext, EndedBy, EndedByNext, TellsEnd, ViewOf

\* What was received stays so, and a message waiting to be rendered is
\* replaced by a later one only.
LEMMA ReceivedGrows ==
    ASSUME PageInv, PageInv', [SystemNext]_systemVars
    PROVE  /\ received =< received'
           /\ lastMessage' = lastMessage \/ lastMessage' = 0 \/ lastMessage' > received
<1>1. /\ received \in 0..Len(sent) /\ Len(sent) \in Nat
      /\ received' \in 0..Len(sent') /\ Len(sent') \in Nat
      /\ lastMessage \in 0..received /\ lastMessage' \in 0..received'
  <2>1. sent \in Seq(Message) /\ sent' \in Seq(Message)
    BY DEF PageInv, IInv, State, TypeOK
  <2>2. QED
    BY <2>1 DEF PageInv, PageTypeOK
<1>2. CASE UNCHANGED socketVars
  BY <1>1, <1>2 DEF socketVars
<1>3. CASE Receive \/ Drop \/ Reconnect \/ Render
  BY <1>1, <1>3 DEF Receive, Drop, Reconnect, Render, laneVars
<1>4. CASE LaneRuns \/ Calls \/ ClickStart \/ Dismiss \/ UNCHANGED systemVars
  BY <1>2, <1>4 DEF LaneRuns, Calls, ClickStart, Dismiss, AnswerRestore, ShowRestored, ServeStart,
        RefuseStart, StartFails, ShowStarted, AnswerRefused, Adopt, pageVars, systemVars
<1>5. QED
  BY <1>3, <1>4 DEF SystemNext

LEMMA ViewKept ==
    ASSUME PageInv, PageInv', Told, [SystemNext]_systemVars, NEW v \in JobView
    PROVE  /\ Behind(v.id, v.processed) => BehindNext(v.id, v.processed)
           /\ EndedBy(v) => EndedByNext(v)
<1>1. [Next]_vars /\ IInv /\ IInv'
  BY LaneStep DEF PageInv
<1>2. v.id \in 1..MaxJobs /\ v.processed \in 0..MaxItems
  BY DEF JobView
<1>3. Behind(v.id, v.processed) => BehindNext(v.id, v.processed)
  BY <1>1, <1>2, BehindKept
<1>4. /\ received \in 0..Len(sent) /\ sent \in Seq(Message) /\ Len(sent) \in Nat
      /\ received' \in 0..Len(sent') /\ Len(sent') \in Nat
      /\ lastMessage \in 0..received /\ lastMessage' \in 0..received'
  <2>1. sent \in Seq(Message) /\ sent' \in Seq(Message)
    BY <1>1 DEF IInv, State, TypeOK
  <2>2. QED
    BY <2>1 DEF PageInv, PageTypeOK
<1>5. \A i \in 1..Len(sent) : sent'[i] = sent[i]
  BY <1>1, <1>4, LaneMoves
<1>6. Len(sent) =< Len(sent')
  BY <1>1, LaneKeepsEnds DEF PageInv
<1>7. /\ received =< received'
      /\ lastMessage' = lastMessage \/ lastMessage' = 0 \/ lastMessage' > received
  BY ReceivedGrows
<1>8. ASSUME EndedBy(v)
      PROVE  EndedByNext(v)
  <2>1. PICK i \in 1..received : (lastMessage # 0 => i < lastMessage) /\ TellsEnd(sent[i], v)
    BY <1>8 DEF EndedBy
  <2>2. i \in 1..Len(sent) /\ i \in 1..received'
    BY <1>4, <1>7, <2>1
  <2>3. lastMessage' # 0 => i < lastMessage'
    <3>1. i \in Nat /\ i =< received /\ received \in Nat /\ lastMessage' \in Nat
      BY <1>4, <2>1
    <3>2. CASE lastMessage' = lastMessage
      BY <2>1, <3>2
    <3>3. CASE lastMessage' > received
      BY <3>1, <3>3
    <3>4. QED
      BY <1>7, <3>2, <3>3
  <2>4. QED
    BY <1>5, <2>1, <2>2, <2>3 DEF EndedByNext
<1>9. QED
  BY <1>3, <1>8

LEMMA ShowViews ==
    ASSUME PageInv, PageInv', Told, Views, [SystemNext]_systemVars,
           NEW v \in JobView, RunningView(v), Show(v)
    PROVE  view' # NoView => ViewNext(view')
<1> DEFINE w == IF lastFinished # NoView /\ lastFinished.id = v.id THEN lastFinished ELSE v
<1>1. view' = Snapshot(view, w)
  BY DEF Show
<1>2. w \in JobView
  BY DEF PageInv, PageTypeOK
<1>3. ViewNext(w)
  <2>1. CASE w = v
    BY <2>1, ViewKept DEF ViewNext, RunningView
  <2>2. CASE w = lastFinished /\ lastFinished # NoView
    BY <1>2, <2>2, ViewKept DEF ViewNext, Views
  <2>3. QED
    BY <2>1, <2>2
<1>4. view # NoView => ViewNext(view)
  <2>1. view # NoView => view \in JobView
    BY DEF PageInv, PageTypeOK
  <2>2. QED
    BY <2>1, ViewKept DEF ViewNext, Views, ShowsEnd
<1> HIDE DEF w
<1>5. view' = w \/ (view # NoView /\ view' = view)
  BY <1>1 DEF Snapshot
<1>6. QED
  BY <1>3, <1>4, <1>5

LEMMA KeptViews ==
    ASSUME PageInv, PageInv', Told, Views, [SystemNext]_systemVars
    PROVE  /\ view # NoView => ViewNext(view)
           /\ lastFinished # NoView =>
                 BehindNext(lastFinished.id, lastFinished.processed) /\ EndedByNext(lastFinished)
           /\ restore.at = "answered" => RunningViewNext(restore.got)
           /\ start.at \in {"started", "adopting"} => RunningViewNext(start.got)
<1>1. /\ view # NoView => view \in JobView
      /\ lastFinished # NoView => lastFinished \in JobView
      /\ restore.at = "answered" => restore.got \in JobView
      /\ start.at \in {"started", "adopting"} => start.got \in JobView
  BY DEF PageInv, PageTypeOK, Known, Call
<1>2. QED
  BY <1>1, ViewKept DEF ViewNext, RunningView, RunningViewNext, Views, ShowsEnd

\* The Job a request finds running is shown as it is.
LEMMA AnswerViews ==
    ASSUME PageInv, PageInv', Told, Told', Views, [SystemNext]_systemVars,
           AnswerRestore \/ AnswerRefused \/ ServeStart
    PROVE  Views'
<1>1. UNCHANGED <<view, lastFinished>>
  BY DEF AnswerRestore, AnswerRefused, ServeStart, shownVars
<1>2. ActiveView # NoView => RunningView(ActiveView)
  <2>1. SUFFICES ASSUME ActiveView # NoView PROVE RunningView(ActiveView)
    OBVIOUS
  <2>2. job # NoJob /\ job.status = "running" /\ ActiveView = ViewOf(job)
    BY <2>1 DEF ActiveView
  <2>3. QED
    BY <2>2 DEF RunningView, ViewOf, Told
<1>3. ActiveView # NoView => RunningViewNext(ActiveView)
  BY <1>2, ViewKept, ActiveViewType DEF PageInv, PageTypeOK, RunningView, RunningViewNext
<1>4. \A v : /\ Answered("answered", v).got = v /\ Answered("adopting", v).got = v
             /\ Answered("started", v).got = v
  BY DEF Answered
<1>5. At("done").at = "done" /\ At("idle").at = "idle"
  BY DEF At
<1>6. CASE AnswerRestore
  <2>1. restore' = At("done") \/ (restore' = Answered("answered", ActiveView) /\ ActiveView # NoView)
    BY <1>6 DEF AnswerRestore, At, Answered
  <2>2. restore'.at = "answered" => RunningViewNext(restore'.got)
    BY <1>3, <1>4, <1>5, <2>1
  <2>3. UNCHANGED start
    BY <1>6 DEF AnswerRestore
  <2>4. QED
    BY <1>1, <2>2, <2>3, KeptViews, ViewsNext
<1>7. CASE AnswerRefused
  <2>1. start' = At("idle") \/ (start' = Answered("adopting", ActiveView) /\ ActiveView # NoView)
    BY <1>7 DEF AnswerRefused, At, Answered
  <2>2. start'.at \in {"started", "adopting"} => RunningViewNext(start'.got)
    BY <1>3, <1>4, <1>5, <2>1
  <2>3. UNCHANGED restore
    BY <1>7 DEF AnswerRefused
  <2>4. QED
    BY <1>1, <2>2, <2>3, KeptViews, ViewsNext
<1>8. CASE ServeStart
  <2>1. start' = Answered("started", ViewOf(job')) /\ UNCHANGED restore
    BY <1>8 DEF ServeStart
  <2>2. job' # NoJob /\ job'.status = "running"
    <3>1. job' = NewJob(Started + 1, Mine)
      BY <1>8 DEF ServeStart, Start
    <3>2. job'.status = "running" /\ busy'
      BY <1>8, <3>1 DEF ServeStart, Start, NewJob
    <3>3. QED
      BY <3>2 DEF PageInv, IInv, State, Held
  <2>3. BehindNext(job'.id, job'.processed)
    BY <2>2 DEF Told, Behind, BehindNext
  <2>4. RunningViewNext(ViewOf(job'))
    BY <2>2, <2>3 DEF RunningViewNext, ViewOf
  <2>5. start'.got = ViewOf(job')
    BY <1>4, <2>1
  <2>6. QED
    BY <1>1, <2>1, <2>4, <2>5, KeptViews, ViewsNext
<1>9. QED
  BY <1>6, <1>7, <1>8

LEMMA RenderViews ==
    ASSUME PageInv, PageInv', Told, Views, [SystemNext]_systemVars, Render
    PROVE  Views'
<1>1. UNCHANGED <<restore, start, sent, received>> /\ lastMessage' = 0
  BY DEF Render, callVars, laneVars
<1>2. CASE UNCHANGED <<view, lastFinished>>
  BY <1>1, <1>2, KeptViews, ViewsNext
<1>3. CASE lastMessage # 0 /\ sent[lastMessage].job.kind = Mine
  <2> DEFINE m == sent[lastMessage]
  <2>1. /\ view' = Follow(view, m)
        /\ lastFinished' = IF m.type = "complete" THEN ViewOf(m.job) ELSE lastFinished
    BY <1>3 DEF Render
  <2>2. /\ lastMessage \in 1..received /\ lastMessage \in 1..Len(sent) /\ m \in Message
        /\ received \in Nat /\ Len(sent) \in Nat
    <3>1. sent \in Seq(Message) /\ Len(sent) \in Nat /\ received \in 0..Len(sent) /\ lastMessage \in 0..received
      BY DEF PageInv, PageTypeOK, TypeOK
    <3>2. QED
      BY <1>3, <3>1
  <2>3. m.job \in Job /\ m.job.id \in 1..MaxJobs /\ m.job.processed \in 0..MaxItems
    BY <2>2, JobFields DEF Message
  <2>4. ViewOf(m.job) \in JobView /\ ViewOf(m.job).id = m.job.id /\ ViewOf(m.job).processed = m.job.processed
    BY <2>3, ViewOfJob DEF ViewOf
  <2>5. Behind(m.job.id, m.job.processed) /\ BehindNext(m.job.id, m.job.processed)
    <3>1. Behind(m.job.id, m.job.processed)
      BY <2>2 DEF Told
    <3>2. Behind(ViewOf(m.job).id, ViewOf(m.job).processed)
      BY <2>4, <3>1
    <3>3. BehindNext(ViewOf(m.job).id, ViewOf(m.job).processed)
      BY <2>4, <3>2, ViewKept
    <3>4. QED
      BY <2>4, <3>1, <3>3
  <2>6. ASSUME NEW v, TellsEnd(m, v)
        PROVE  EndedByNext(v)
    BY <1>1, <2>2, <2>6 DEF EndedByNext
  <2>7. m.type = "complete" => TellsEnd(m, ViewOf(m.job))
    BY <1>3, <2>4 DEF TellsEnd
  <2>8. lastFinished' # NoView =>
           BehindNext(lastFinished'.id, lastFinished'.processed) /\ EndedByNext(lastFinished')
    <3>1. CASE m.type = "complete"
      <4>1. lastFinished' = ViewOf(m.job) /\ EndedByNext(ViewOf(m.job))
        BY <2>1, <2>6, <2>7, <3>1
      <4>2. QED
        BY <2>4, <2>5, <4>1
    <3>2. CASE m.type # "complete"
      BY <2>1, <3>2, KeptViews
    <3>3. QED
      BY <3>1, <3>2
  <2> HIDE DEF m
  <2>9. view' # NoView => ViewNext(view')
    <3>1. CASE view = NoView \/ view.id # m.job.id \/ m.type = "started"
      <4>1. view' = view
        BY <2>1, <3>1 DEF Follow
      <4>2. QED
        BY <4>1, KeptViews
    <3>2. CASE view # NoView /\ view.id = m.job.id /\ m.type = "complete"
      <4>1. view' = ViewOf(m.job)
        BY <2>1, <3>2 DEF Follow
      <4>2. QED
        BY <2>4, <2>5, <2>6, <2>7, <3>2, <4>1 DEF ViewNext
    <3>3. CASE view # NoView /\ view.id = m.job.id /\ m.type = "error"
      <4>1. view' = [view EXCEPT !.phase = "failed"]
        BY <2>1, <3>3 DEF Follow
      <4>2. view \in JobView /\ Behind(view.id, view.processed)
        BY <3>3 DEF PageInv, PageTypeOK, Views
      <4>3. view.processed = 0
        BY <2>2, <3>3, <4>2 DEF Behind, m
      <4>4. view'.id = view.id /\ view'.processed = view.processed /\ view'.phase = "failed"
        BY <4>1, <4>2 DEF JobView
      <4>5. TellsEnd(m, view')
        BY <1>3, <3>3, <4>3, <4>4 DEF TellsEnd, m
      <4>6. PICK w : w = view'
        OBVIOUS
      <4>7. EndedByNext(view')
        BY <2>6, <4>5
      <4>8. BehindNext(view'.id, view'.processed)
        BY <4>2, <4>4, ViewKept
      <4>9. QED
        BY <4>7, <4>8 DEF ViewNext
    <3>4. CASE view # NoView /\ view.id = m.job.id /\ m.type = "done"
      <4>1. view' = [view EXCEPT !.processed = m.job.processed]
        BY <2>1, <3>4 DEF Follow
      <4>2. view \in JobView
        BY <3>4 DEF PageInv, PageTypeOK
      <4>3. view'.id = m.job.id /\ view'.processed = m.job.processed /\ view'.phase = view.phase
        BY <3>4, <4>1, <4>2 DEF JobView
      <4>4. BehindNext(view'.id, view'.processed)
        BY <2>5, <4>3
      <4>5. ASSUME view.phase # "running"
            PROVE  EndedByNext(view')
        <5>1. PICK i \in 1..received : i < lastMessage /\ TellsEnd(sent[i], view)
          BY <1>3, <3>4, <4>5 DEF Views, ShowsEnd, EndedBy
        <5>2. i \in DOMAIN sent /\ lastMessage \in DOMAIN sent
          <6>1. received \in 0..Len(sent) /\ sent \in Seq(Message)
            BY DEF PageInv, PageTypeOK, TypeOK
          <6>2. QED
            BY <2>2, <5>1, <6>1
        <5>3. sent[i].type # "complete"
          <6>1. sent[i].type = "complete" => sent[i].job.id < m.job.id
            BY <5>1, <5>2 DEF PageInv, IInv, Messages, CompleteIsLast, m
          <6>2. QED
            BY <2>3, <3>4, <5>1, <6>1 DEF TellsEnd
        <5>4. sent[i].type = "error" /\ view.processed = 0 /\ sent[i].job.id = m.job.id
          BY <3>4, <5>1, <5>3 DEF TellsEnd
        <5>5. m.job.processed = 0
          BY <2>2, <2>5, <5>1, <5>2, <5>4 DEF Behind
        <5>6. view' = view
          BY <4>1, <4>2, <5>4, <5>5 DEF JobView
        <5>7. QED
          BY <3>4, <4>5, <5>6, KeptViews DEF ViewNext
      <4>6. QED
        BY <4>3, <4>4, <4>5 DEF ViewNext
    <3>5. m.type \in {"started", "done", "error", "complete"}
      BY <2>2 DEF Message
    <3>6. QED
      BY <3>1, <3>2, <3>3, <3>4, <3>5
  <2>10. QED
    BY <1>1, <2>8, <2>9, KeptViews, ViewsNext
<1>4. QED
  BY <1>2, <1>3 DEF Render

LEMMA NextViews ==
    PageInv /\ PageInv' /\ Told /\ Views /\ [SystemNext]_systemVars => Told' /\ Views'
<1> SUFFICES ASSUME PageInv, PageInv', Told, Views, [SystemNext]_systemVars PROVE Told' /\ Views'
  OBVIOUS
<1>1. Told'
  BY LaneStep, TellingKeepsTold DEF PageInv
<1>2. Views'
  <2>1. CASE UNCHANGED <<shownVars, callVars>>
    BY <2>1, KeptViews, ViewsNext DEF shownVars, callVars
  <2>2. CASE Receive \/ Drop \/ Reconnect \/ LaneRuns \/ UNCHANGED systemVars
    BY <2>1, <2>2 DEF Receive, Drop, Reconnect, LaneRuns, systemVars, pageVars
  <2>3. CASE AnswerRestore \/ AnswerRefused \/ ServeStart
    BY <1>1, <2>3, AnswerViews
  <2>4. CASE ClickStart \/ RefuseStart \/ StartFails
    <3>1. /\ UNCHANGED <<view, lastFinished, restore>>
          /\ start' \in {At("sent"), At("refused"), At("idle")}
      BY <2>4 DEF ClickStart, RefuseStart, StartFails, shownVars
    <3>2. start'.at \notin {"started", "adopting"}
      BY <3>1 DEF At
    <3>3. QED
      BY <3>1, <3>2, KeptViews, ViewsNext
  <2>5. CASE ShowRestored
    <3>1. /\ UNCHANGED <<lastFinished, start>> /\ restore'.at = "done"
          /\ restore.got \in JobView /\ RunningView(restore.got) /\ Show(restore.got)
      BY <2>5 DEF ShowRestored, At, PageInv, PageTypeOK, Known, Call, Views
    <3>2. view' # NoView => ViewNext(view')
      BY <3>1, ShowViews
    <3>3. QED
      BY <3>1, <3>2, KeptViews, ViewsNext
  <2>6. CASE ShowStarted \/ Adopt
    <3>1. /\ UNCHANGED <<lastFinished, restore>> /\ start'.at = "idle"
          /\ start.got \in JobView /\ RunningView(start.got) /\ Show(start.got)
      BY <2>6 DEF ShowStarted, Adopt, At, PageInv, PageTypeOK, Known, Call, Views
    <3>2. view' # NoView => ViewNext(view')
      BY <3>1, ShowViews
    <3>3. QED
      BY <3>1, <3>2, KeptViews, ViewsNext
  <2>7. CASE Dismiss
    <3>1. UNCHANGED <<lastFinished, restore, start>> /\ view' = NoView
      BY <2>7 DEF Dismiss, callVars
    <3>2. QED
      BY <3>1, KeptViews, ViewsNext
  <2>8. CASE Render
    BY <2>8, RenderViews
  <2>9. QED
    BY <2>2, <2>3, <2>4, <2>5, <2>6, <2>7, <2>8 DEF SystemNext, Calls
<1>3. QED
  BY <1>1, <1>2

LEMMA ViewsInvariance == SystemSpec => [](Told /\ Views)
<1>1. PageInit => Told /\ Views
  <2> SUFFICES ASSUME PageInit PROVE Told /\ Views
    OBVIOUS
  <2>1. job = NoJob /\ Len(sent) = 0
    BY DEF PageInit, Init
  <2>2. QED
    BY <2>1 DEF PageInit, Told, Views, ShowsEnd, At
<1>2. PageInv /\ PageInv' /\ (Told /\ Views) /\ [SystemNext]_systemVars => (Told /\ Views)'
  BY NextViews
<1>3. QED
  BY <1>1, <1>2, PageInvariance, PTL DEF SystemSpec

-----------------------------------------------------------------------------
(***************************************************************************)
(* A Job that could not list its items is told to have failed, by its      *)
(* error message and by its complete message.                              *)
(***************************************************************************)
Failing ==
    /\ \A i \in 1..Len(sent) :
          sent[i].type = "error" /\ sent[i].job.id = Started /\ pc = "finish" => end = "failed"
    /\ \A i, k \in 1..Len(sent) :
          sent[i].type = "error" /\ sent[k].type = "complete" /\ sent[i].job.id = sent[k].job.id
            => sent[k].job.status = "failed"

LEMMA FailingStep ==
    ASSUME IInv, Told, Failing, [Next]_vars
    PROVE  Failing'
<1>1. sent \in Seq(Message) /\ Len(sent) \in Nat
  BY DEF IInv, State, TypeOK
<1>2. CASE UNCHANGED <<sent, pc, end>> /\ Started' = Started
  BY <1>2 DEF Failing
<1>3. CASE UNCHANGED sent /\ pc' # "finish"
  BY <1>3 DEF Failing
<1>4. CASE Check
  <2>1. UNCHANGED <<job, sent>> /\ pc = "check"
    BY <1>4 DEF Check
  <2>2. Started' = Started
    BY <2>1 DEF Started
  <2>3. \A i \in 1..Len(sent) : ~ (sent[i].type = "error" /\ sent[i].job.id = Started)
    BY <2>1 DEF Told
  <2>4. QED
    BY <2>1, <2>2, <2>3 DEF Failing
<1>5. ASSUME NEW m, sent' = Append(sent, m), job' = job, pc' # "finish", m.type \in {"started", "done"}
      PROVE  Failing'
  <2>1. /\ Len(sent') = Len(sent) + 1
        /\ \A i \in 1..Len(sent) : sent'[i] = sent[i]
        /\ sent'[Len(sent) + 1] = m
    BY <1>1, <1>5
  <2>2. \A i \in 1..Len(sent') : sent'[i].type \in {"error", "complete"} => i \in 1..Len(sent)
    BY <1>1, <1>5, <2>1
  <2>3. QED
    BY <1>5, <2>1, <2>2 DEF Failing
<1>6. CASE ReportListFailed
  <2>1. /\ pc = "listFailed" /\ end = "failed" /\ UNCHANGED <<job, end>>
        /\ sent' = Append(sent, [type |-> "error", job |-> [job EXCEPT !.status = end]])
    BY <1>6 DEF ReportListFailed, Send, IInv, State, Progress
  <2>2. job \in Job /\ Started = job.id
    BY <2>1, HeldJob
  <2>3. DEFINE m == [type |-> "error", job |-> [job EXCEPT !.status = end]]
  <2>4. /\ Len(sent') = Len(sent) + 1
        /\ \A i \in 1..Len(sent) : sent'[i] = sent[i]
        /\ sent'[Len(sent) + 1] = m
    BY <1>1, <2>1
  <2>5. m.type = "error" /\ m.job.id = Started
    <3>1. end \in {"running"} \cup Ends
      BY <2>1 DEF Ends
    <3>2. [job EXCEPT !.status = end].id = job.id
      BY <2>2, <3>1, SetStatus
    <3>3. QED
      BY <2>2, <3>2
  <2> HIDE DEF m
  <2>6. \A k \in 1..Len(sent) : sent[k].type = "complete" => sent[k].job.id # Started
    BY <1>1, <2>1 DEF IInv, Messages, SentSoFar
  <2>7. \A k \in 1..Len(sent') : sent'[k].type = "complete" => k \in 1..Len(sent)
    BY <1>1, <2>4, <2>5
  <2>8. \A i \in 1..Len(sent') : i \in 1..Len(sent) \/ sent'[i].job.id = Started
    BY <1>1, <2>4, <2>5
  <2>9. ASSUME NEW i \in 1..Len(sent'), NEW k \in 1..Len(sent'),
               sent'[i].type = "error", sent'[k].type = "complete", sent'[i].job.id = sent'[k].job.id
        PROVE  sent'[k].job.status = "failed"
    <3>1. k \in 1..Len(sent) /\ sent'[k] = sent[k]
      BY <2>4, <2>7, <2>9
    <3>2. i \in 1..Len(sent) /\ sent'[i] = sent[i]
      BY <2>4, <2>6, <2>8, <2>9, <3>1
    <3>3. QED
      BY <2>9, <3>1, <3>2 DEF Failing
  <2>10. QED
    BY <2>1, <2>9 DEF Failing
<1>7. CASE Finish
  <2>1. /\ pc = "finish" /\ pc' = "record"
        /\ sent' = Append(sent, [type |-> "complete", job |-> [job EXCEPT !.status = end, !.current = 0]])
    BY <1>7 DEF Finish, Send
  <2>2. job \in Job /\ Started = job.id /\ end \in Ends
    BY <2>1, HeldJob DEF IInv, State, TypeOK
  <2>3. DEFINE m == [type |-> "complete", job |-> [job EXCEPT !.status = end, !.current = 0]]
  <2>4. /\ Len(sent') = Len(sent) + 1
        /\ \A i \in 1..Len(sent) : sent'[i] = sent[i]
        /\ sent'[Len(sent) + 1] = m
    BY <1>1, <2>1
  <2>5. m.type = "complete" /\ m.job.id = Started /\ m.job.status = end
    BY <2>2, EndJob
  <2> HIDE DEF m
  <2>6. ASSUME NEW i \in 1..Len(sent'), NEW k \in 1..Len(sent'),
               sent'[i].type = "error", sent'[k].type = "complete", sent'[i].job.id = sent'[k].job.id
        PROVE  sent'[k].job.status = "failed"
    <3>1. i \in 1..Len(sent) /\ sent'[i] = sent[i]
      BY <1>1, <2>4, <2>5, <2>6
    <3>2. CASE k \in 1..Len(sent)
      BY <2>4, <2>6, <3>1, <3>2 DEF Failing
    <3>3. CASE k = Len(sent) + 1
      <4>1. sent'[k] = m
        BY <2>4, <3>3
      <4>2. end = "failed"
        BY <2>1, <2>5, <2>6, <3>1, <4>1 DEF Failing
      <4>3. QED
        BY <2>5, <4>1, <4>2
    <3>4. QED
      BY <1>1, <2>4, <3>2, <3>3
  <2>7. QED
    BY <2>1, <2>6 DEF Failing
<1>8. CASE ItemStarted
  BY <1>5, <1>8 DEF ItemStarted, Send
<1>9. CASE ItemDone
  <2>1. CASE sent' = sent
    BY <1>3, <1>9, <2>1 DEF ItemDone
  <2>2. CASE sent' = Append(sent, [type |-> "done", job |-> job])
    BY <1>5, <1>9, <2>2 DEF ItemDone
  <2>3. QED
    BY <1>9, <2>1, <2>2 DEF ItemDone, Send
<1>10. CASE UNCHANGED vars \/ \E kind \in Kinds, id \in 1..MaxJobs : Cancel(kind, id)
  BY <1>2, <1>10 DEF vars, Cancel, Started
<1>11. CASE \/ \E kind \in Kinds : Start(kind)
            \/ \E n \in 0..MaxItems : List(n)
            \/ ListFails \/ BeginItem \/ Record
            \/ \E outcome \in Outcomes : RunItem(outcome)
  BY <1>3, <1>11 DEF Start, List, ListFails, BeginItem, Record, RunItem
<1>12. QED
  BY <1>4, <1>6, <1>7, <1>8, <1>9, <1>10, <1>11 DEF Next, Execute

LEMMA FailingInvariance == SystemSpec => []Failing
<1>1. PageInit => Failing
  <2> SUFFICES ASSUME PageInit PROVE Failing
    OBVIOUS
  <2>1. Len(sent) = 0
    BY DEF PageInit, Init
  <2>2. QED
    BY <2>1 DEF Failing
<1>2. PageInv /\ Told /\ Failing /\ [SystemNext]_systemVars => Failing'
  BY LaneStep, FailingStep DEF PageInv
<1>3. QED
  BY <1>1, <1>2, PageInvariance, ViewsInvariance, PTL DEF SystemSpec

\* Neither an answer nor a message changes the end a page shows.
LEMMA EndKept ==
    ASSUME PageInv, Views, Failing, [SystemNext]_systemVars,
           ShowsEnd, view' # NoView, view'.id = view.id
    PROVE  view'.phase = view.phase
<1>1. CASE view' = view
  BY <1>1
<1>2. ASSUME NEW v \in JobView, Show(v)
      PROVE  view'.phase = view.phase
  <2> DEFINE w == IF lastFinished # NoView /\ lastFinished.id = v.id THEN lastFinished ELSE v
  <2>1. view' = Snapshot(view, w)
    BY <1>2 DEF Show
  <2> HIDE DEF w
  <2>2. QED
    BY <2>1 DEF Snapshot, ShowsEnd
<1>3. CASE ShowRestored \/ ShowStarted \/ Adopt
  <2>1. \E v \in JobView : Show(v)
    BY <1>3 DEF ShowRestored, ShowStarted, Adopt, PageInv, PageTypeOK, Known, Call
  <2>2. QED
    BY <1>2, <2>1
<1>4. CASE Render
  <2>1. CASE lastMessage # 0 /\ sent[lastMessage].job.kind = Mine
    <3> DEFINE m == sent[lastMessage]
    <3>1. view' = Follow(view, m)
      BY <1>4, <2>1 DEF Render
    <3>2. PICK i \in 1..received : i < lastMessage /\ TellsEnd(sent[i], view)
      BY <2>1 DEF Views, EndedBy
    <3>3. i \in DOMAIN sent /\ lastMessage \in DOMAIN sent /\ m \in Message
          /\ i \in 1..Len(sent) /\ lastMessage \in 1..Len(sent)
      <4>1. /\ sent \in Seq(Message) /\ Len(sent) \in Nat
            /\ received \in 0..Len(sent) /\ lastMessage \in 0..received
        BY DEF PageInv, PageTypeOK, TypeOK
      <4>2. i \in 1..Len(sent) /\ lastMessage \in 1..Len(sent)
        BY <2>1, <3>2, <4>1
      <4>3. QED
        BY <4>1, <4>2
    <3>4. m.job.id \in 1..MaxJobs
      BY <3>3, JobFields DEF Message
    <3>5. sent[i].type = "complete" => sent[i].job.id < m.job.id
      BY <3>2, <3>3 DEF PageInv, IInv, Messages, CompleteIsLast
    <3>6. (sent[i].type = "error" /\ m.type = "complete" /\ sent[i].job.id = m.job.id)
             => m.job.status = "failed"
      BY <3>3 DEF Failing
    <3> HIDE DEF m
    <3>7. CASE view.id # m.job.id \/ m.type = "started"
      BY <3>1, <3>7 DEF Follow
    <3>8. CASE view.id = m.job.id /\ m.type # "started"
      <4>1. sent[i].type = "error" /\ view.phase = "failed" /\ sent[i].job.id = m.job.id
        BY <3>2, <3>4, <3>5, <3>8 DEF TellsEnd
      <4>2. view \in JobView /\ view # NoView
        BY DEF PageInv, PageTypeOK, ShowsEnd
      <4>3. CASE m.type = "done"
        <5>1. view' = [view EXCEPT !.processed = m.job.processed]
          BY <3>1, <3>8, <4>2, <4>3 DEF Follow
        <5>2. QED
          BY <4>2, <5>1 DEF JobView
      <4>4. CASE m.type = "complete"
        BY <3>1, <3>6, <3>8, <4>1, <4>2, <4>4 DEF Follow, ViewOf
      <4>5. CASE m.type = "error"
        <5>1. view' = [view EXCEPT !.phase = "failed"]
          BY <3>1, <3>8, <4>2, <4>5 DEF Follow
        <5>2. QED
          BY <4>1, <4>2, <5>1 DEF JobView
      <4>6. QED
        BY <3>3, <3>8, <4>3, <4>4, <4>5 DEF Message, m
    <3>9. QED
      BY <3>7, <3>8
  <2>2. QED
    BY <1>1, <1>4, <2>1 DEF Render
<1>5. CASE Dismiss
  BY <1>5 DEF Dismiss
<1>6. CASE \/ AnswerRestore \/ ServeStart \/ RefuseStart \/ StartFails \/ AnswerRefused
           \/ ClickStart \/ LaneRuns \/ Receive \/ Drop \/ Reconnect \/ UNCHANGED systemVars
  BY <1>1, <1>6 DEF AnswerRestore, ServeStart, RefuseStart, StartFails, AnswerRefused, ClickStart,
        LaneRuns, Receive, Drop, Reconnect, systemVars, pageVars, shownVars
<1>7. QED
  BY <1>3, <1>4, <1>5, <1>6 DEF SystemNext, Calls

-----------------------------------------------------------------------------
(***************************************************************************)
(* The ends a page has shown, whatever it shows now.                       *)
(***************************************************************************)
\* A message told that Job id ended as phase.
TellsPhase(m, id, phase) ==
    /\ m.job.id = id
    /\ \/ m.type = "complete" /\ ViewOf(m.job).phase = phase
       \/ m.type = "error" /\ phase = "failed"

ToldFailed(id) == \E i \in 1..received : sent[i].type = "error" /\ sent[i].job.id = id

\* The end shown is the one remembered; each end remembered was told, and is
\* known from its complete message or a later Job's unless an error told it.
ShownEnds ==
    /\ ShowsEnd => shownEnd[view.id] = view.phase
    /\ \A id \in 1..MaxJobs : shownEnd[id] # "none" =>
          /\ \E i \in 1..Len(sent) : TellsPhase(sent[i], id, shownEnd[id])
          /\ (lastFinished # NoView /\ id =< lastFinished.id) \/ ToldFailed(id)

\* All messages about the end of a Job tell the same end.
EndsAgree ==
    \A id \in 1..MaxJobs, p, q \in Ends, i, k \in 1..Len(sent) :
        TellsPhase(sent[i], id, p) /\ TellsPhase(sent[k], id, q) => p = q

LEMMA OneEnd == PageInv /\ Failing => EndsAgree
<1> SUFFICES ASSUME IInv, Failing, NEW id \in 1..MaxJobs, NEW p \in Ends, NEW q \in Ends,
                    NEW i \in 1..Len(sent), TellsPhase(sent[i], id, p),
                    NEW k \in 1..Len(sent), TellsPhase(sent[k], id, q)
             PROVE  p = q
  BY DEF EndsAgree, PageInv
<1>1. Len(sent) \in Nat /\ i \in DOMAIN sent /\ k \in DOMAIN sent /\ id \in Nat
  BY BoundsAssumption DEF IInv, State, TypeOK
<1>2. sent[i].job.id = id /\ sent[k].job.id = id
  BY DEF TellsPhase
<1>3. CASE sent[i].type = "complete" /\ sent[k].type = "complete"
  <2>1. ~ (i < k) /\ ~ (k < i)
    BY <1>1, <1>2, <1>3 DEF IInv, Messages, CompleteIsLast
  <2>2. i = k
    BY <2>1
  <2>3. QED
    BY <1>3, <2>2 DEF TellsPhase
<1>4. CASE sent[i].type = "error" /\ sent[k].type = "complete"
  BY <1>2, <1>4 DEF Failing, TellsPhase, ViewOf
<1>5. CASE sent[i].type = "complete" /\ sent[k].type = "error"
  BY <1>2, <1>5 DEF Failing, TellsPhase, ViewOf
<1>6. CASE sent[i].type = "error" /\ sent[k].type = "error"
  BY <1>6 DEF TellsPhase
<1>7. QED
  BY <1>3, <1>4, <1>5, <1>6 DEF TellsPhase

ShownTold ==
    ShowsEnd => /\ view.id \in 1..MaxJobs /\ view.phase \in Ends
                /\ \E i \in 1..Len(sent) : TellsPhase(sent[i], view.id, view.phase)

LEMMA ShowsTold == PageInv /\ Views => ShownTold
<1> SUFFICES ASSUME PageInv, Views, ShowsEnd
             PROVE  /\ view.id \in 1..MaxJobs /\ view.phase \in Ends
                    /\ \E i \in 1..Len(sent) : TellsPhase(sent[i], view.id, view.phase)
  BY DEF ShownTold
<1>1. view \in JobView /\ view.phase # "running"
  BY DEF PageInv, PageTypeOK, ShowsEnd
<1>2. PICK i \in 1..received : TellsEnd(sent[i], view)
  BY DEF Views, EndedBy
<1>3. i \in 1..Len(sent)
  <2>1. sent \in Seq(Message) /\ Len(sent) \in Nat /\ received \in 0..Len(sent)
    BY DEF PageInv, PageTypeOK, TypeOK
  <2>2. QED
    BY <2>1
<1>4. QED
  BY <1>1, <1>2, <1>3 DEF TellsEnd, TellsPhase, JobView

\* What was told stays told.
LEMMA ToldStays ==
    ASSUME PageInv, PageInv', [SystemNext]_systemVars
    PROVE  /\ Len(sent) \in Nat /\ Len(sent') \in Nat /\ Len(sent) =< Len(sent')
           /\ \A i \in 1..Len(sent) : sent'[i] = sent[i]
           /\ received \in 0..Len(sent) /\ received' \in Nat /\ received =< received'
<1>1. [Next]_vars /\ IInv /\ IInv' /\ EndsSent
  BY LaneStep DEF PageInv
<1>2. Len(sent) \in Nat /\ Len(sent') \in Nat /\ Len(sent) =< Len(sent')
  BY <1>1, LaneKeepsEnds
<1>3. \A i \in 1..Len(sent) : sent'[i] = sent[i]
  <2>1. sent \in Seq(Message)
    BY <1>1 DEF IInv, State, TypeOK
  <2>2. QED
    BY <1>1, <2>1, LaneMoves
<1>4. QED
  BY <1>2, <1>3, ReceivedGrows DEF PageInv, PageTypeOK

\* The last end seen is never followed by an earlier Job's.
LEMMA LastFinishedGrows ==
    ASSUME PageInv, PageInv', Views, [SystemNext]_systemVars, lastFinished # NoView
    PROVE  lastFinished' # NoView /\ lastFinished.id =< lastFinished'.id
<1>1. lastFinished \in JobView /\ lastFinished.id \in Nat
  BY BoundsAssumption DEF PageInv, PageTypeOK, JobView
<1>2. CASE lastFinished' = lastFinished
  BY <1>1, <1>2
<1>3. CASE Render /\ lastFinished' # lastFinished
  <2> DEFINE m == sent[lastMessage]
  <2>1. /\ lastMessage # 0 /\ lastFinished' = ViewOf(m.job)
        /\ m.type = "complete"
    BY <1>3 DEF Render
  <2>2. PICK i \in 1..received : i < lastMessage /\ TellsEnd(sent[i], lastFinished)
    BY <2>1 DEF Views, EndedBy
  <2>3. i \in DOMAIN sent /\ lastMessage \in DOMAIN sent /\ m \in Message
    <3>1. /\ sent \in Seq(Message) /\ Len(sent) \in Nat
          /\ received \in 0..Len(sent) /\ lastMessage \in 0..received
      BY DEF PageInv, PageTypeOK, TypeOK
    <3>2. i \in 1..Len(sent) /\ lastMessage \in 1..Len(sent)
      BY <2>1, <3>1
    <3>3. QED
      BY <3>1, <3>2
  <2>4. sent[i].job.id =< m.job.id
    BY <2>2, <2>3 DEF PageInv, IInv, Messages, CompleteIsLast
  <2>5. ViewOf(m.job) \in JobView /\ ViewOf(m.job).id = m.job.id
    BY <2>3, ViewOfJob DEF Message
  <2>6. QED
    BY <2>1, <2>2, <2>4, <2>5, NoViewAssumption DEF TellsEnd
<1>4. CASE ~ Render
  BY <1>2, <1>4 DEF SystemNext, Calls, LaneRuns, AnswerRestore, ShowRestored, ServeStart, RefuseStart,
        StartFails, ShowStarted, AnswerRefused, Adopt, ClickStart, Dismiss, Receive, Drop, Reconnect,
        systemVars, pageVars, shownVars
<1>5. QED
  BY <1>2, <1>3, <1>4

\* An end that is shown now was shown before, or is the last one seen, or was
\* told by an error message.
LEMMA ShownKnown ==
    ASSUME PageInv, PageInv', Views, Failing, [SystemNext]_systemVars, ShowsEnd'
    PROVE  \/ ShowsEnd /\ view'.id = view.id /\ view'.phase = view.phase
           \/ lastFinished' # NoView /\ view'.id =< lastFinished'.id
           \/ ToldFailed(view'.id)
<1>1. view' \in JobView /\ view' # NoView /\ view'.id \in Nat
  BY BoundsAssumption DEF PageInv, PageTypeOK, ShowsEnd, JobView
<1>2. CASE view' = view
  BY <1>2 DEF ShowsEnd
<1>3. ASSUME NEW v, Show(v), v.phase = "running", lastFinished' = lastFinished
      PROVE  view' = view \/ (lastFinished' # NoView /\ view'.id =< lastFinished'.id)
  BY <1>1, <1>3 DEF Show, Snapshot, ShowsEnd
<1>4. CASE ShowRestored \/ ShowStarted \/ Adopt
  <2>1. /\ lastFinished' = lastFinished
        /\ \E v : Show(v) /\ v.phase = "running"
    BY <1>4 DEF ShowRestored, ShowStarted, Adopt, Views, RunningView
  <2>2. QED
    BY <1>2, <1>3, <2>1
<1>5. CASE Render /\ view' # view
  <2> DEFINE m == sent[lastMessage]
  <2>1. /\ lastMessage # 0 /\ view' = Follow(view, m)
        /\ lastFinished' = IF m.type = "complete" THEN ViewOf(m.job) ELSE lastFinished
    BY <1>5 DEF Render
  <2>2. lastMessage \in 1..received /\ m \in Message
    <3>1. /\ sent \in Seq(Message) /\ Len(sent) \in Nat
          /\ received \in 0..Len(sent) /\ lastMessage \in 0..received
      BY DEF PageInv, PageTypeOK, TypeOK
    <3>2. lastMessage \in 1..received /\ lastMessage \in 1..Len(sent)
      BY <2>1, <3>1
    <3>3. QED
      BY <3>1, <3>2
  <2>3. view # NoView /\ view.id = m.job.id /\ view'.id = view.id /\ view \in JobView
    BY <1>5, <2>1, <2>2, FollowType DEF Follow, PageInv, PageTypeOK
  <2>4. CASE m.type = "complete"
    <3>1. lastFinished' = ViewOf(m.job) /\ ViewOf(m.job) \in JobView /\ ViewOf(m.job).id = m.job.id
      BY <2>1, <2>2, <2>4, ViewOfJob DEF Message
    <3>2. QED
      BY <1>1, <2>3, <3>1, NoViewAssumption
  <2>5. CASE m.type = "error"
    BY <2>2, <2>3, <2>5 DEF ToldFailed
  <2>6. CASE m.type \notin {"complete", "error"}
    <3>1. view.phase # "running"
      <4>1. view'.phase # "running"
        BY DEF ShowsEnd
      <4>2. CASE m.type = "done"
        <5>1. view' = [view EXCEPT !.processed = m.job.processed]
          BY <2>1, <2>3, <4>2 DEF Follow
        <5>2. QED
          BY <2>3, <4>1, <5>1 DEF JobView
      <4>3. CASE m.type = "started"
        BY <1>5, <2>1, <4>3 DEF Follow
      <4>4. QED
        BY <2>2, <2>6, <4>2, <4>3 DEF Message
    <3>2. QED
      BY <1>1, <2>3, <3>1, EndKept DEF ShowsEnd
  <2>7. QED
    BY <2>4, <2>5, <2>6
<1>6. CASE Dismiss
  BY <1>1, <1>6 DEF Dismiss
<1>7. QED
  BY <1>2, <1>4, <1>5, <1>6 DEF SystemNext, Calls, LaneRuns, AnswerRestore, ServeStart, RefuseStart,
        StartFails, AnswerRefused, ClickStart, Receive, Drop, Reconnect, systemVars, pageVars, shownVars

\* An end that was shown stays the end of its Job.
LEMMA ShownEndKept ==
    ASSUME PageInv, PageInv', Views', Failing', ShownEnds, [SystemNext]_systemVars,
           NEW id \in 1..MaxJobs, shownEnd[id] # "none"
    PROVE  shownEnd'[id] = shownEnd[id]
<1>1. CASE shownEnd' = shownEnd
  BY <1>1
<1>2. CASE ShowsEnd' /\ shownEnd' = [shownEnd EXCEPT ![view'.id] = view'.phase]
  <2>1. shownEnd \in [1..MaxJobs -> Ends \cup {"none"}]
    BY DEF PageInv, PageTypeOK
  <2>2. CASE view'.id # id
    BY <1>2, <2>1, <2>2
  <2>3. CASE view'.id = id
    <3>1. PICK i \in 1..Len(sent) : TellsPhase(sent[i], id, shownEnd[id])
      BY DEF ShownEnds
    <3>2. i \in 1..Len(sent') /\ TellsPhase(sent'[i], id, shownEnd[id])
      BY <3>1, ToldStays
    <3>3. ShownTold' /\ EndsAgree'
      <4>1. PageInv' /\ Views' => ShownTold'
        BY ShowsTold, PTL
      <4>2. PageInv' /\ Failing' => EndsAgree'
        BY OneEnd, PTL
      <4>3. QED
        BY <4>1, <4>2
    <3>4. PICK k \in 1..Len(sent') : TellsPhase(sent'[k], id, view'.phase)
      BY <1>2, <2>3, <3>3 DEF ShownTold
    <3>5. view'.phase \in Ends /\ shownEnd[id] \in Ends
      BY <1>2, <2>1, <3>3 DEF ShownTold
    <3>6. view'.phase = shownEnd[id]
      BY <3>2, <3>3, <3>4, <3>5 DEF EndsAgree, TellsPhase, ViewOf
    <3>7. QED
      BY <1>2, <2>1, <2>3, <3>6
  <2>4. QED
    BY <2>2, <2>3
<1>3. QED
  BY <1>1, <1>2, RememberStep

LEMMA NextShownEnds ==
    PageInv /\ PageInv' /\ Views /\ Views' /\ Failing /\ Failing' /\ ShownEnds /\ [SystemNext]_systemVars
      => ShownEnds'
<1> SUFFICES ASSUME PageInv, PageInv', Views, Views', Failing, Failing', ShownEnds, [SystemNext]_systemVars
             PROVE  ShownEnds'
  OBVIOUS
<1>1. /\ shownEnd \in [1..MaxJobs -> Ends \cup {"none"}]
      /\ lastFinished # NoView => lastFinished.id \in Nat
      /\ lastFinished' # NoView => lastFinished'.id \in Nat
  BY BoundsAssumption DEF PageInv, PageTypeOK, JobView
<1>2. ShownTold'
  <2>1. PageInv' /\ Views' => ShownTold'
    BY ShowsTold, PTL
  <2>2. QED
    BY <2>1
<1>3. ShowsEnd' => shownEnd'[view'.id] = view'.phase
  <2>1. CASE shownEnd' = shownEnd /\ view' = view
    BY <2>1 DEF ShownEnds, ShowsEnd
  <2>2. CASE ShowsEnd' /\ shownEnd' = [shownEnd EXCEPT ![view'.id] = view'.phase]
    BY <1>1, <1>2, <2>2 DEF ShownTold
  <2>3. QED
    BY <2>1, <2>2, RememberStep
<1>4. ASSUME NEW id \in 1..MaxJobs, shownEnd'[id] # "none"
      PROVE  /\ \E i \in 1..Len(sent') : TellsPhase(sent'[i], id, shownEnd'[id])
             /\ (lastFinished' # NoView /\ id =< lastFinished'.id) \/ ToldFailed(id)'
  <2>1. ToldFailed(id) => ToldFailed(id)'
    <3>1. SUFFICES ASSUME NEW i \in 1..received, sent[i].type = "error", sent[i].job.id = id
                   PROVE  i \in 1..received' /\ sent'[i] = sent[i]
      BY DEF ToldFailed
    <3>2. QED
      BY ToldStays
  <2>2. CASE shownEnd[id] # "none"
    <3>1. shownEnd'[id] = shownEnd[id]
      BY <2>2, ShownEndKept
    <3>2. PICK i \in 1..Len(sent) : TellsPhase(sent[i], id, shownEnd[id])
      BY <2>2 DEF ShownEnds
    <3>3. i \in 1..Len(sent') /\ TellsPhase(sent'[i], id, shownEnd'[id])
      BY <3>1, <3>2, ToldStays
    <3>4. (lastFinished # NoView /\ id =< lastFinished.id) \/ ToldFailed(id)
      BY <2>2 DEF ShownEnds
    <3>5. (lastFinished' # NoView /\ id =< lastFinished'.id) \/ ToldFailed(id)'
      BY <1>1, <2>1, <3>4, LastFinishedGrows, BoundsAssumption
    <3>6. QED
      BY <3>3, <3>5
  <2>3. CASE shownEnd[id] = "none"
    <3>1. ShowsEnd' /\ view'.id = id /\ shownEnd'[id] = view'.phase
      BY <1>1, <1>4, <2>3, RememberStep
    <3>2. \E i \in 1..Len(sent') : TellsPhase(sent'[i], id, shownEnd'[id])
      BY <1>2, <3>1 DEF ShownTold
    <3>3. ~ (ShowsEnd /\ view'.id = view.id /\ view'.phase = view.phase)
      <4>1. ShowsEnd => view.phase # "none"
        BY DEF PageInv, PageTypeOK, ShowsEnd, JobView, Ends
      <4>2. QED
        BY <2>3, <3>1, <4>1 DEF ShownEnds
    <3>4. (lastFinished' # NoView /\ id =< lastFinished'.id) \/ ToldFailed(id)
      BY <3>1, <3>3, ShownKnown
    <3>5. QED
      BY <2>1, <3>2, <3>4
  <2>4. QED
    BY <2>2, <2>3
<1>5. QED
  BY <1>3, <1>4 DEF ShownEnds

LEMMA ShownEndsInvariance == SystemSpec => []ShownEnds
<1>1. PageInit => ShownEnds
  BY DEF PageInit, ShownEnds, ShowsEnd
<1>2. QED
  BY <1>1, NextShownEnds, PageInvariance, ViewsInvariance, FailingInvariance, PTL DEF SystemSpec

\* What shows a Job running that had been shown ended is an answer that was on
\* its way, and only when the page has lost the end.
LEMMA RevivedByLateAnswer ==
    ASSUME PageInv, PageInv', Views, Failing, ShownEnds, [SystemNext]_systemVars,
           NEW id \in 1..MaxJobs, shownEnd[id] # "none",
           view' # NoView, view'.phase = "running", view'.id = id
    PROVE  \/ ShowsRunning /\ Shows(id)
           \/ EndLost(id) /\ AnswerOnItsWay(id)
<1>1. /\ id \in Nat
      /\ lastFinished # NoView => lastFinished.id \in Nat /\ lastFinished.phase # "running"
      /\ view # NoView => view \in JobView
  BY BoundsAssumption DEF PageInv, PageTypeOK, JobView, Known
<1>2. CASE view' = view
  BY <1>2 DEF ShowsRunning, Shows
<1>3. ASSUME NEW v, Show(v), view' # view, AnswerOnItsWay(v.id)
      PROVE  (ShowsRunning /\ Shows(id)) \/ (EndLost(id) /\ AnswerOnItsWay(id))
  <2> DEFINE w == IF lastFinished # NoView /\ lastFinished.id = v.id THEN lastFinished ELSE v
  <2>1. view' = Snapshot(view, w)
    BY <1>3 DEF Show
  <2>2. view' = w
    BY <1>3, <2>1 DEF Snapshot
  <2>3. w = v /\ (lastFinished # NoView => lastFinished.id # id)
    BY <1>1, <2>2
  <2>4. v.id = id /\ AnswerOnItsWay(id)
    BY <1>3, <2>2, <2>3
  <2> HIDE DEF w
  <2>5. Shows(id) => ShowsRunning
    BY <1>3, <2>1, <2>3, <2>4 DEF Snapshot, Shows, ShowsRunning
  <2>6. (lastFinished # NoView /\ lastFinished.id > id) \/ ToldFailed(id)
    BY <1>1, <2>3 DEF ShownEnds
  <2>7. QED
    BY <2>3, <2>4, <2>5, <2>6 DEF EndLost, ToldFailed
<1>4. CASE ShowRestored \/ ShowStarted \/ Adopt
  <2>1. \E v : Show(v) /\ AnswerOnItsWay(v.id)
    BY <1>4 DEF ShowRestored, ShowStarted, Adopt, PageInv, Known, AnswerOnItsWay
  <2>2. QED
    BY <1>2, <1>3, <2>1
<1>5. CASE Render /\ view' # view
  <2> DEFINE m == sent[lastMessage]
  <2>1. lastMessage # 0 /\ view' = Follow(view, m)
    BY <1>5 DEF Render
  <2>2. m \in Message
    <3>1. /\ sent \in Seq(Message) /\ Len(sent) \in Nat
          /\ received \in 0..Len(sent) /\ lastMessage \in 0..received
      BY DEF PageInv, PageTypeOK, TypeOK
    <3>2. lastMessage \in 1..Len(sent)
      BY <2>1, <3>1
    <3>3. QED
      BY <3>1, <3>2
  <2>3. view # NoView /\ view'.id = view.id
    BY <2>1, <2>2, FollowType DEF PageInv, PageTypeOK
  <2>4. view.phase = "running"
    BY <2>3, EndKept DEF ShowsEnd
  <2>5. QED
    BY <2>3, <2>4 DEF ShowsRunning, Shows
<1>6. CASE Dismiss
  BY <1>6 DEF Dismiss
<1>7. QED
  BY <1>2, <1>4, <1>5, <1>6 DEF SystemNext, Calls, LaneRuns, AnswerRestore, ServeStart, RefuseStart,
        StartFails, AnswerRefused, ClickStart, Receive, Drop, Reconnect, systemVars, pageVars, shownVars

-----------------------------------------------------------------------------
\* A lane that a page watches and drives is still a lane: all that is proved of
\* Spec holds of the system.
THEOREM LaneUnderneath == SystemSpec => Spec
<1>1. PageInit => Init
  BY DEF PageInit
<1>2. QED
  BY <1>1, LaneStep, PTL DEF SystemSpec, Spec

\* The page's variables keep their types: it renders messages the lane sent and
\* shows Jobs of the lane.
THEOREM PageTypeCorrect == SystemSpec => []PageTypeOK
<1>1. PageInv => PageTypeOK
  BY DEF PageInv
<1>2. QED
  BY <1>1, PageInvariance, PTL

\* A Job whose end was the last one seen is never shown running, however late
\* the answer that brings it in (useJob.ts:64-66).
THEOREM SeenEndShown == SystemSpec => []ShowsSeenEnd
<1>1. PageInv => ShowsSeenEnd
  BY DEF PageInv
<1>2. QED
  BY <1>1, PageInvariance, PTL

\* A Job shown ended has the end and the counts its complete message carries,
\* or failed to list its items, whatever was missed or came late.
THEOREM EndsAsTold == SystemSpec => []FinalCountsAgree
<1>1. PageInv /\ Views => FinalCountsAgree
  <2> SUFFICES ASSUME PageInv, Views, ShowsEnd PROVE EndedAs(view)
    BY DEF FinalCountsAgree
  <2>1. PICK i \in 1..received : TellsEnd(sent[i], view)
    BY DEF Views, EndedBy
  <2>2. i \in DOMAIN sent
    BY <2>1 DEF PageInv, PageTypeOK, TypeOK
  <2>3. QED
    BY <2>1, <2>2 DEF EndedAs, TellsEnd
<1>2. QED
  BY <1>1, PageInvariance, ViewsInvariance, PTL

\* A Job that was shown ended is never shown ended otherwise afterwards, and
\* comes back as running only by a late answer that finds its end lost.
THEOREM EndsAreFinal == SystemSpec => EndIsFinal
<1>1. PageInv /\ PageInv' /\ Views /\ Views' /\ Failing /\ Failing' /\ ShownEnds /\ [SystemNext]_systemVars
        => [\A id \in 1..MaxJobs : shownEnd[id] # "none" =>
               /\ shownEnd'[id] = shownEnd[id]
               /\ (ShowsRunning /\ Shows(id))' =>
                     (ShowsRunning /\ Shows(id)) \/ (EndLost(id) /\ AnswerOnItsWay(id))]_systemVars
  BY ShownEndKept, RevivedByLateAnswer DEF ShowsRunning, Shows
<1>2. QED
  BY <1>1, PageInvariance, ViewsInvariance, FailingInvariance, ShownEndsInvariance, PTL
  DEF SystemSpec, EndIsFinal
=============================================================================
