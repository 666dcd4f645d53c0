------------------------------ MODULE JobLane -------------------------------
(***************************************************************************)
(* A Job Lane: service.JobRunner (internal/service/job_runner.go) with the *)
(* Job kinds that share it, as on the Media Lane: their reporters, their   *)
(* status queries and their Cancel endpoints.                              *)
(*                                                                         *)
(* The Job's goroutine interleaves with requests at every critical section *)
(* of r.mu and at every message it sends.  Items are numbered; what an     *)
(* item does is its outcome.                                               *)
(***************************************************************************)
EXTENDS Integers, Sequences

CONSTANTS Kinds,     \* services starting Jobs on the lane
          QuietKinds,\* those whose reporter sends no message per item done
          RecentKinds,\* those whose status query promises a finished Job too
          MaxJobs,   \* bound: Jobs started
          MaxItems,  \* bound: items of one Job
          NoJob

Outcomes == {"succeeded", "skipped", "failed"}
Ends == {"completed", "failed", "cancelled"}

\* model of service.Job: what an item is called, its errors and the times are
\* left out; current is the number of the item in progress.
Job == [id : 1..MaxJobs, kind : Kinds, status : {"running"} \cup Ends,
        total : 0..MaxItems, processed : 0..MaxItems, succeeded : 0..MaxItems,
        skipped : 0..MaxItems, failed : 0..MaxItems, current : 0..MaxItems,
        listError : BOOLEAN]

ASSUME BoundsAssumption ==
    /\ MaxJobs \in Nat
    /\ MaxItems \in Nat
    /\ QuietKinds \subseteq Kinds
    /\ RecentKinds \subseteq Kinds
ASSUME NoJobAssumption == NoJob \notin Job

VARIABLES
    job,      \* r.latest as pollers see it, or NoJob before the first Job
    busy,     \* r.busy
    cancelCh, \* whether the cancel channel of the latest Job is closed
    pc,       \* where the Job's goroutine stands
    end,      \* jobRun.end
    final,    \* the snapshot finish takes and reports
    sent,     \* messages sent so far, in order
    cancelAt  \* history: items already run or past the check when the Job was
              \* cancelled, or -1

vars == <<job, busy, cancelCh, pc, end, final, sent, cancelAt>>

PCs == {"none", "list", "listFailed", "check", "begin", "announce", "run", "report", "finish", "record"}

Message == [type : {"started", "done", "error", "complete"}, job : Job]

TypeOK ==
    /\ job \in Job \cup {NoJob}
    /\ busy \in BOOLEAN
    /\ cancelCh \in BOOLEAN
    /\ pc \in PCs
    /\ end \in Ends
    /\ final \in Job \cup {NoJob}
    /\ sent \in Seq(Message)
    /\ cancelAt \in -1..MaxItems

Init ==
    /\ job = NoJob
    /\ busy = FALSE
    /\ cancelCh = FALSE
    /\ pc = "none"
    /\ end = "completed"
    /\ final = NoJob
    /\ sent = <<>>
    /\ cancelAt = -1

-----------------------------------------------------------------------------
NewJob(id, kind) ==
    [id |-> id, kind |-> kind, status |-> "running", total |-> 0, processed |-> 0,
     succeeded |-> 0, skipped |-> 0, failed |-> 0, current |-> 0, listError |-> FALSE]

Started == IF job = NoJob THEN 0 ELSE job.id

Send(type, snapshot) == sent' = Append(sent, [type |-> type, job |-> snapshot])

(***************************************************************************)
(* Requests                                                                *)
(***************************************************************************)
Start(kind) ==
    /\ ~ busy
    /\ Started < MaxJobs
    /\ job' = NewJob(Started + 1, kind)
    /\ busy' = TRUE
    /\ cancelCh' = FALSE
    /\ cancelAt' = -1
    /\ pc' = "list"
    /\ end' = "completed"
    /\ UNCHANGED <<final, sent>>

\* A kind's Cancel endpoint, for Job id of that kind: refused unless it is
\* the latest Job, a no-op once that has finished.  A second call finds the
\* channel closed already.
Cancel(kind, id) ==
    /\ job # NoJob
    /\ job.id = id /\ job.kind = kind
    /\ job.status = "running"
    /\ ~ cancelCh
    /\ cancelCh' = TRUE
    /\ cancelAt' = IF pc \in {"begin", "announce", "run"} THEN job.processed + 1
                   ELSE job.processed
    /\ UNCHANGED <<job, busy, pc, end, final, sent>>

(***************************************************************************)
(* The Job's goroutine: execute, runItem and finish                        *)
(***************************************************************************)
List(n) ==
    /\ pc = "list"
    /\ pc' = "check"
    /\ job' = [job EXCEPT !.total = n]
    /\ UNCHANGED <<busy, cancelCh, end, final, sent, cancelAt>>

ListFails ==
    /\ pc = "list"
    /\ pc' = "listFailed"
    /\ end' = "failed"
    /\ job' = [job EXCEPT !.listError = TRUE]
    /\ UNCHANGED <<busy, cancelCh, final, sent, cancelAt>>

ReportListFailed ==
    /\ pc = "listFailed"
    /\ pc' = "finish"
    /\ Send("error", [job EXCEPT !.status = end])
    /\ UNCHANGED <<job, busy, cancelCh, end, final, cancelAt>>

\* Mutant: the loop looks at the cancel channel only before the first item.
CheckOnce ==
    /\ pc = "check"
    /\ \/ /\ job.processed < job.total
          /\ IF cancelCh /\ job.processed = 0
             THEN pc' = "finish" /\ end' = "cancelled"
             ELSE pc' = "begin" /\ UNCHANGED end
       \/ /\ job.processed = job.total
          /\ pc' = "finish"
          /\ UNCHANGED end
    /\ UNCHANGED <<job, busy, cancelCh, final, sent, cancelAt>>
\* Mutant: the loop looks at the cancel channel after the last item too.
CheckPastEnd ==
    /\ pc = "check"
    /\ \/ /\ cancelCh
          /\ pc' = "finish"
          /\ end' = "cancelled"
       \/ /\ ~ cancelCh
          /\ pc' = IF job.processed < job.total THEN "begin" ELSE "finish"
          /\ UNCHANGED end
    /\ UNCHANGED <<job, busy, cancelCh, final, sent, cancelAt>>
\* The head of the loop: items left, then the cancel channel.
Check ==
    /\ pc = "check"
    /\ \/ /\ job.processed < job.total
          /\ cancelCh
          /\ pc' = "finish"
          /\ end' = "cancelled"
       \/ /\ job.processed < job.total
          /\ ~ cancelCh
          /\ pc' = "begin"
          /\ UNCHANGED end
       \/ /\ job.processed = job.total
          /\ pc' = "finish"
          /\ UNCHANGED end
    /\ UNCHANGED <<job, busy, cancelCh, final, sent, cancelAt>>

BeginItem ==
    /\ pc = "begin"
    /\ pc' = "announce"
    /\ job' = [job EXCEPT !.current = @ + 1]
    /\ UNCHANGED <<busy, cancelCh, end, final, sent, cancelAt>>

ItemStarted ==
    /\ pc = "announce"
    /\ pc' = "run"
    /\ Send("started", job)
    /\ UNCHANGED <<job, busy, cancelCh, end, final, cancelAt>>

RunItem(outcome) ==
    /\ pc = "run"
    /\ pc' = "report"
    /\ job' = [job EXCEPT !.processed = job.current, ![outcome] = @ + 1]
    /\ UNCHANGED <<busy, cancelCh, end, final, sent, cancelAt>>

ItemDone ==
    /\ pc = "report"
    /\ pc' = "check"
    /\ IF job.kind \in QuietKinds THEN UNCHANGED sent ELSE Send("done", job)
    /\ UNCHANGED <<job, busy, cancelCh, end, final, cancelAt>>

\* Mutant: the Job is recorded as finished before its complete message.
FinishRecordsFirst ==
    /\ pc = "finish"
    /\ pc' = "record"
    /\ final' = [job EXCEPT !.status = end, !.current = 0]
    /\ job' = final'
    /\ busy' = FALSE
    /\ UNCHANGED <<cancelCh, end, sent, cancelAt>>
\* Mutant: the report is the running Job, without the way it ended.
FinishReportsRunning ==
    /\ pc = "finish"
    /\ pc' = "record"
    /\ final' = [job EXCEPT !.status = end, !.current = 0]
    /\ Send("complete", [job EXCEPT !.current = 0, !.status = "completed"])
    /\ UNCHANGED <<job, busy, cancelCh, end, cancelAt>>
\* Reports the end first ...
Finish ==
    /\ pc = "finish"
    /\ pc' = "record"
    /\ final' = [job EXCEPT !.status = end, !.current = 0]
    /\ Send("complete", final')
    /\ UNCHANGED <<job, busy, cancelCh, end, cancelAt>>

\* Mutant: the lane is not freed.
RecordKeepsLane ==
    /\ pc = "record"
    /\ pc' = "none"
    /\ job' = [job EXCEPT !.status = final.status, !.current = 0]
    /\ UNCHANGED <<busy, cancelCh, end, final, sent, cancelAt>>
\* Mutant: the end is reported once more when it is recorded.
RecordReportsToo ==
    /\ pc = "record"
    /\ pc' = "none"
    /\ job' = [job EXCEPT !.status = final.status, !.current = 0]
    /\ busy' = FALSE
    /\ Send("complete", job')
    /\ UNCHANGED <<cancelCh, end, final, cancelAt>>
\* ... then records it and frees the lane in one critical section.
Record ==
    /\ pc = "record"
    /\ pc' = "none"
    /\ job' = [job EXCEPT !.status = final.status, !.current = 0]
    /\ busy' = FALSE
    /\ UNCHANGED <<cancelCh, end, final, sent, cancelAt>>

Execute ==
    \/ \E n \in 0..MaxItems : List(n)
    \/ ListFails \/ ReportListFailed \/ Check \/ BeginItem \/ ItemStarted
    \/ \E outcome \in Outcomes : RunItem(outcome)
    \/ ItemDone \/ Finish \/ Record

Next ==
    \/ \E kind \in Kinds : Start(kind)
    \/ \E kind \in Kinds, id \in 1..MaxJobs : Cancel(kind, id)
    \/ Execute

\* The goroutine runs as long as it can: items and sends return.
Spec == Init /\ [][Next]_vars
FairSpec == Spec /\ WF_vars(Execute)

-----------------------------------------------------------------------------
(***************************************************************************)
(* What the kinds show of the lane                                         *)
(***************************************************************************)
\* BackfillRunner.Active and EnrichmentService.ActiveJob: the latest Job, if
\* it is of the kind; ImportService.GetActiveJob: only while it runs.
Active(kind) ==
    IF /\ job # NoJob
       /\ job.kind = kind
       /\ job.status = "running" \/ kind \in RecentKinds
    THEN job ELSE NoJob

-----------------------------------------------------------------------------
(***************************************************************************)
(* Properties                                                              *)
(***************************************************************************)
\* A poller that sees the Job finished can start the next one, and never sees
\* a running Job on a free lane (job_runner.go:223-225).
FinishedIffFree ==
    job # NoJob => (job.status = "running" <=> busy)

\* The counts a poller or a message shows add up, within the total, and a Job
\* ends the way its counts say: completed with every item processed,
\* cancelled with some left, failed with none listed.
Consistent(j) ==
    /\ j.processed = j.succeeded + j.skipped + j.failed
    /\ j.processed =< j.total
    /\ j.status = "completed" => j.processed = j.total /\ ~ j.listError
    /\ j.status = "cancelled" => j.processed < j.total
    /\ j.status = "failed" => j.listError /\ j.total = 0
CountsAgree ==
    /\ job # NoJob => Consistent(job)
    /\ \A i \in DOMAIN sent : Consistent(sent[i].job)

\* Messages of different Jobs never mix: a Job's complete message is its last
\* one and comes before anything of the next Job (ADR-0014).
CompleteIsLast ==
    \A i, k \in DOMAIN sent : i < k =>
        /\ sent[i].job.id =< sent[k].job.id
        /\ sent[i].type = "complete" => sent[i].job.id < sent[k].job.id

\* By the time the next Job starts, every earlier one has sent its complete
\* message, and its last message told the state it was left in.
EarlierJobsCompleted ==
    \A id \in 1..(IF busy THEN Started - 1 ELSE Started) :
        \E i \in DOMAIN sent : sent[i].type = "complete" /\ sent[i].job.id = id
ReportIsTheRecord ==
    (job # NoJob /\ ~ busy) => sent[Len(sent)] = [type |-> "complete", job |-> job]

\* Cancelling stops the Job after its current item (job_runner.go:145): the
\* items begun and those run stay at the number that had run or passed the
\* loop's check when the cancel channel was closed.
CancelStopsSoon ==
    cancelCh => job.current =< cancelAt /\ job.processed =< cancelAt

\* Every Job ends and frees its lane, cancelled or not.
EveryJobEnds == busy ~> ~ busy

\* The lane keeps the promises of ADR-0014.
Completed == {sent[i].job.id : i \in {k \in DOMAIN sent : sent[k].type = "complete"}}
Promise == INSTANCE Lane WITH started <- Started, running <- busy, completed <- Completed
ImplementsLane == Promise!Spec

\* BackfillRunner.Active returns "the most recently started job (running or
\* finished), or nil when none has started in this process"
\* (backfill_runner.go:68-69), the page's way back to a Backfill it left: once
\* a Job of such a kind has been reported, the query has a Job to show.
ActiveShowsLatestOfKind ==
    \A i \in DOMAIN sent : sent[i].job.kind \in RecentKinds => Active(sent[i].job.kind) # NoJob
=============================================================================
