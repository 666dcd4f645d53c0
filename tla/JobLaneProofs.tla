--------------------------- MODULE JobLaneProofs ----------------------------
(***************************************************************************)
(* Theorems about JobLane for any kinds and any bounds.                    *)
(***************************************************************************)
EXTENDS JobLane, TLAPS

\* The lane is held exactly while the goroutine of the latest Job runs.
Held ==
    /\ busy <=> pc # "none"
    /\ busy => job # NoJob
    /\ job # NoJob => (job.status = "running" <=> busy)

\* How far the goroutine is, in terms of the Job it carries.
Progress ==
    /\ job # NoJob =>
          /\ job.processed = job.succeeded + job.skipped + job.failed
          /\ job.processed =< job.total
    /\ pc \in {"list", "check", "begin", "announce", "run", "report"} =>
          end = "completed" /\ ~ job.listError
    /\ pc \in {"list", "listFailed"} => job.total = 0
    /\ pc \in {"list", "check", "begin", "report"} => job.current = job.processed
    /\ pc \in {"announce", "run"} => job.current = job.processed + 1
    /\ pc \in {"begin", "announce", "run"} => job.processed < job.total
    /\ pc = "listFailed" => end = "failed" /\ job.listError
    /\ pc = "finish" => Consistent([job EXCEPT !.status = end])
    /\ pc = "record" => final = [job EXCEPT !.status = end, !.current = 0] /\ Consistent(final)
    /\ pc = "none" /\ job # NoJob => Consistent(job)

\* What has been sent when the goroutine is at pc.
SentSoFar ==
    \A i \in DOMAIN sent :
        /\ Consistent(sent[i].job)
        /\ sent[i].job.id =< Started
        /\ (sent[i].type = "complete" /\ sent[i].job.id = Started) => pc \in {"record", "none"}
LastReport ==
    pc = "record" => sent # <<>> /\ sent[Len(sent)] = [type |-> "complete", job |-> final]

\* The inductive invariant: where the goroutine is, and what it has sent.
State == TypeOK /\ Held /\ Progress
Messages ==
    SentSoFar /\ LastReport /\ CompleteIsLast /\ EarlierJobsCompleted /\ ReportIsTheRecord
IInv == State /\ Messages

-----------------------------------------------------------------------------
(***************************************************************************)
(* What each edit of a Job's record keeps.                                 *)
(***************************************************************************)
LEMMA JobFields ==
    ASSUME NEW j \in Job
    PROVE  /\ j.id \in 1..MaxJobs /\ j.status \in {"running"} \cup Ends
           /\ j.total \in 0..MaxItems /\ j.processed \in 0..MaxItems /\ j.current \in 0..MaxItems
           /\ j.succeeded \in 0..MaxItems /\ j.skipped \in 0..MaxItems /\ j.failed \in 0..MaxItems
           /\ j.listError \in BOOLEAN
BY DEF Job

LEMMA SetTotal ==
    ASSUME NEW j \in Job, NEW n \in 0..MaxItems
    PROVE  LET f == [j EXCEPT !.total = n]
           IN  /\ f \in Job
               /\ f.id = j.id /\ f.kind = j.kind /\ f.status = j.status /\ f.current = j.current
               /\ f.total = n /\ f.processed = j.processed /\ f.listError = j.listError
               /\ f.succeeded = j.succeeded /\ f.skipped = j.skipped /\ f.failed = j.failed
BY DEF Job

LEMMA SetListError ==
    ASSUME NEW j \in Job
    PROVE  LET f == [j EXCEPT !.listError = TRUE]
           IN  /\ f \in Job
               /\ f.id = j.id /\ f.kind = j.kind /\ f.status = j.status /\ f.current = j.current
               /\ f.total = j.total /\ f.processed = j.processed /\ f.listError
               /\ f.succeeded = j.succeeded /\ f.skipped = j.skipped /\ f.failed = j.failed
BY DEF Job

LEMMA SetCurrent ==
    ASSUME NEW j \in Job, NEW n \in 0..MaxItems
    PROVE  LET f == [j EXCEPT !.current = n]
           IN  /\ f \in Job
               /\ f.id = j.id /\ f.kind = j.kind /\ f.status = j.status /\ f.current = n
               /\ f.total = j.total /\ f.processed = j.processed /\ f.listError = j.listError
               /\ f.succeeded = j.succeeded /\ f.skipped = j.skipped /\ f.failed = j.failed
BY DEF Job

LEMMA SetStatus ==
    ASSUME NEW j \in Job, NEW e \in {"running"} \cup Ends
    PROVE  LET f == [j EXCEPT !.status = e]
           IN  /\ f \in Job
               /\ f.id = j.id /\ f.kind = j.kind /\ f.status = e /\ f.current = j.current
               /\ f.total = j.total /\ f.processed = j.processed /\ f.listError = j.listError
               /\ f.succeeded = j.succeeded /\ f.skipped = j.skipped /\ f.failed = j.failed
BY DEF Job

LEMMA EndJob ==
    ASSUME NEW j \in Job, NEW e \in Ends
    PROVE  LET f == [j EXCEPT !.status = e, !.current = 0]
           IN  /\ f \in Job
               /\ f.id = j.id /\ f.kind = j.kind /\ f.status = e /\ f.current = 0
               /\ f.total = j.total /\ f.processed = j.processed /\ f.listError = j.listError
               /\ f.succeeded = j.succeeded /\ f.skipped = j.skipped /\ f.failed = j.failed
<1> DEFINE g == [j EXCEPT !.status = e]
           f == [j EXCEPT !.status = e, !.current = 0]
<1>1. g \in Job
  BY SetStatus
<1>2. f = [g EXCEPT !.current = 0]
  OBVIOUS
<1> HIDE DEF g
<1>3. f \in Job
  BY <1>1, <1>2, SetCurrent, BoundsAssumption
<1>4. QED
  BY <1>3 DEF Job

LEMMA AddOne ==
    ASSUME NEW j \in Job, NEW outcome \in Outcomes, j[outcome] < MaxItems
    PROVE  LET f == [j EXCEPT ![outcome] = @ + 1]
           IN  /\ f \in Job
               /\ f.succeeded + f.skipped + f.failed = j.succeeded + j.skipped + j.failed + 1
<1> USE BoundsAssumption
<1>1. CASE outcome = "succeeded"
  BY <1>1 DEF Job
<1>2. CASE outcome = "skipped"
  BY <1>2 DEF Job
<1>3. CASE outcome = "failed"
  BY <1>3 DEF Job
<1>4. QED
  BY <1>1, <1>2, <1>3 DEF Outcomes

LEMMA CountItem ==
    ASSUME NEW j \in Job, NEW outcome \in Outcomes, j[outcome] < MaxItems
    PROVE  LET f == [j EXCEPT !.processed = j.current, ![outcome] = @ + 1]
           IN  /\ f \in Job
               /\ f.id = j.id /\ f.kind = j.kind /\ f.status = j.status /\ f.current = j.current
               /\ f.total = j.total /\ f.processed = j.current /\ f.listError = j.listError
               /\ f.succeeded + f.skipped + f.failed = j.succeeded + j.skipped + j.failed + 1
<1> DEFINE g == [j EXCEPT !.processed = j.current]
           f == [j EXCEPT !.processed = j.current, ![outcome] = @ + 1]
<1>1. /\ g \in Job /\ g[outcome] = j[outcome]
      /\ g.succeeded = j.succeeded /\ g.skipped = j.skipped /\ g.failed = j.failed
  BY DEF Job, Outcomes
<1>2. f = [g EXCEPT ![outcome] = @ + 1]
  BY DEF Outcomes
<1>4. /\ f.id = j.id /\ f.kind = j.kind /\ f.status = j.status /\ f.current = j.current
      /\ f.total = j.total /\ f.processed = j.current /\ f.listError = j.listError
  BY DEF Job, Outcomes
<1> HIDE DEF g
<1>3. f \in Job /\ f.succeeded + f.skipped + f.failed = j.succeeded + j.skipped + j.failed + 1
  BY <1>1, <1>2, AddOne
<1>6. QED
  BY <1>3, <1>4

-----------------------------------------------------------------------------
LEMMA InitIInv == Init => IInv
<1> SUFFICES ASSUME Init PROVE IInv
  OBVIOUS
<1>1. TypeOK
  <2>1. -1 \in -1..MaxItems
    BY BoundsAssumption
  <2>2. <<>> \in Seq(Message)
    OBVIOUS
  <2>3. QED
    BY <2>1, <2>2 DEF Init, TypeOK, Ends, PCs
<1>2. Held /\ Progress
  BY DEF Init, Held, Progress
<1>3. DOMAIN sent = {} /\ Started = 0
  BY DEF Init, Started
<1>4. Messages
  BY <1>3 DEF Init, Messages, SentSoFar, LastReport, CompleteIsLast, EarlierJobsCompleted,
        ReportIsTheRecord
<1>5. QED
  BY <1>1, <1>2, <1>4 DEF IInv, State

-----------------------------------------------------------------------------
(***************************************************************************)
(* The goroutine between two messages, and requests.                       *)
(***************************************************************************)
\* A step that sends nothing and keeps the latest Job keeps the order of the
\* messages.
LEMMA SilentStep ==
    ASSUME IInv, UNCHANGED <<sent, busy>>, job \in Job, job' \in Job, job'.id = job.id,
           pc \in {"record", "none"} => pc' \in {"record", "none"}
    PROVE  SentSoFar' /\ CompleteIsLast' /\ EarlierJobsCompleted'
<1>1. Started' = Started
  BY NoJobAssumption DEF Started
<1>2. QED
  BY <1>1 DEF IInv, Messages, SentSoFar, CompleteIsLast, EarlierJobsCompleted

LEMMA HeldJob ==
    ASSUME IInv, pc # "none"
    PROVE  busy /\ job \in Job /\ job # NoJob /\ Started = job.id
BY DEF IInv, State, TypeOK, Held, Started

LEMMA SilentIInv ==
    ASSUME IInv,
           \/ ListFails \/ Check \/ BeginItem
           \/ \E n \in 0..MaxItems : List(n)
           \/ pc = "report" /\ job.kind \in QuietKinds /\ ItemDone
    PROVE  IInv'
<1>1. busy /\ job \in Job /\ job # NoJob /\ pc \notin {"none", "record"} /\ busy' = busy
  BY HeldJob DEF ListFails, Check, BeginItem, List, ItemDone
<1> USE JobFields
<1>2. State' /\ job' \in Job /\ job'.id = job.id
  <2>1. CASE \E n \in 0..MaxItems : List(n)
    <3>1. PICK n \in 0..MaxItems : List(n)
      BY <2>1
    <3>2. job' = [job EXCEPT !.total = n]
      BY <3>1 DEF List
    <3>3. job' \in Job /\ job' # NoJob
      BY <1>1, <3>2, SetTotal, NoJobAssumption
    <3>4. TypeOK'
      BY <3>1, <3>3 DEF List, IInv, State, TypeOK, PCs
    <3>5. Held'
      BY <1>1, <3>1, <3>2, <3>3, SetTotal DEF List, IInv, State, Held
    <3>6. Progress'
      BY <1>1, <3>1, <3>2, <3>3, SetTotal DEF List, IInv, State, Progress
    <3>7. QED
      BY <1>1, <3>2, <3>3, <3>4, <3>5, <3>6, SetTotal DEF State
  <2>2. CASE ListFails
    <3>2. job' = [job EXCEPT !.listError = TRUE]
      BY <2>2 DEF ListFails
    <3>3. job' \in Job /\ job' # NoJob
      BY <1>1, <3>2, SetListError, NoJobAssumption
    <3>4. TypeOK'
      BY <2>2, <3>3 DEF ListFails, IInv, State, TypeOK, PCs, Ends
    <3>5. Held'
      BY <1>1, <2>2, <3>2, <3>3, SetListError DEF ListFails, IInv, State, Held
    <3>6. Progress'
      BY <1>1, <2>2, <3>2, <3>3, SetListError DEF ListFails, IInv, State, Progress
    <3>7. QED
      BY <1>1, <3>2, <3>3, <3>4, <3>5, <3>6, SetListError DEF State
  <2>3. CASE BeginItem
    <3>1. pc = "begin" /\ job.current + 1 \in 0..MaxItems
      BY <1>1, <2>3, BoundsAssumption DEF BeginItem, IInv, State, Progress
    <3>2. job' = [job EXCEPT !.current = job.current + 1]
      BY <2>3 DEF BeginItem
    <3>3. job' \in Job /\ job' # NoJob
      BY <1>1, <3>1, <3>2, SetCurrent, NoJobAssumption
    <3>4. TypeOK'
      BY <2>3, <3>3 DEF BeginItem, IInv, State, TypeOK, PCs
    <3>5. Held'
      BY <1>1, <2>3, <3>1, <3>2, <3>3, SetCurrent DEF BeginItem, IInv, State, Held
    <3>6. Progress'
      BY <1>1, <2>3, <3>1, <3>2, <3>3, SetCurrent DEF BeginItem, IInv, State, Progress
    <3>7. QED
      BY <1>1, <3>1, <3>2, <3>3, <3>4, <3>5, <3>6, SetCurrent DEF State
  <2>4. CASE Check
    <3>1. job' = job
      BY <2>4 DEF Check
    <3>2. TypeOK' /\ Held'
      BY <1>1, <2>4 DEF Check, IInv, State, TypeOK, Held, PCs, Ends
    <3>3. CASE pc' = "begin"
      BY <1>1, <2>4, <3>1, <3>2, <3>3 DEF Check, IInv, State, Progress
    <3>4. CASE pc' = "finish"
      <4> DEFINE f == [job EXCEPT !.status = end']
      <4>1. end' \in Ends
        BY <3>2 DEF TypeOK
      <4>2. f.processed = job.processed /\ f.succeeded = job.succeeded /\ f.skipped = job.skipped
            /\ f.failed = job.failed /\ f.total = job.total /\ f.listError = job.listError /\ f.status = end'
        BY <1>1, <4>1, SetStatus
      <4>3. /\ job.processed = job.succeeded + job.skipped + job.failed
            /\ job.processed =< job.total /\ ~ job.listError
            /\ \/ end' = "completed" /\ job.processed = job.total
               \/ end' = "cancelled" /\ job.processed < job.total
        BY <1>1, <2>4, <3>4 DEF Check, IInv, State, Progress
      <4>4. Consistent(f)
        BY <4>2, <4>3 DEF Consistent
      <4>5. QED
        BY <3>1, <3>2, <3>4, <4>4, <4>3, <1>1 DEF State, Progress
    <3>5. QED
      BY <1>1, <2>4, <3>1, <3>2, <3>3, <3>4 DEF Check, State
  <2>5. CASE pc = "report" /\ job.kind \in QuietKinds /\ ItemDone
    <3>1. TypeOK' /\ Held' /\ Progress'
      BY <1>1, <2>5 DEF ItemDone, IInv, State, TypeOK, Held, Progress, PCs
    <3>2. QED
      BY <1>1, <2>5, <3>1 DEF ItemDone, State
  <2>6. QED
    BY <2>1, <2>2, <2>3, <2>4, <2>5
<1>3. SentSoFar' /\ CompleteIsLast' /\ EarlierJobsCompleted'
  BY <1>1, <1>2, SilentStep DEF ListFails, Check, BeginItem, List, ItemDone
<1>4. LastReport' /\ ReportIsTheRecord'
  BY <1>1 DEF ListFails, Check, BeginItem, List, ItemDone, LastReport, ReportIsTheRecord
<1>5. QED
  BY <1>2, <1>3, <1>4 DEF IInv, Messages

LEMMA RunItemIInv ==
    ASSUME IInv, NEW outcome \in Outcomes, RunItem(outcome)
    PROVE  IInv'
<1>1. busy /\ job \in Job /\ job # NoJob /\ pc = "run" /\ pc' = "report" /\ busy' = busy
  BY HeldJob DEF RunItem
<1>2. job' = [job EXCEPT !.processed = job.current, ![outcome] = @ + 1]
  BY DEF RunItem
<1>3. /\ job.processed = job.succeeded + job.skipped + job.failed
      /\ job.processed < job.total
      /\ job.current = job.processed + 1
      /\ end = "completed" /\ ~ job.listError
  BY <1>1 DEF IInv, State, Progress
<1>4. job[outcome] \in 0..MaxItems /\ job[outcome] < MaxItems
  BY <1>1, <1>3, JobFields, BoundsAssumption DEF Outcomes
<1>5. /\ job' \in Job /\ job'.id = job.id /\ job'.status = job.status
      /\ job'.current = job.current /\ job'.total = job.total
      /\ job'.processed = job.current /\ job'.listError = job.listError
      /\ job'.succeeded + job'.skipped + job'.failed = job.succeeded + job.skipped + job.failed + 1
  BY <1>1, <1>2, <1>4, CountItem
<1>6. job' # NoJob
  BY <1>5, NoJobAssumption
<1>7. State'
  <2>1. TypeOK'
    BY <1>1, <1>5 DEF RunItem, IInv, State, TypeOK, PCs
  <2>2. Held'
    BY <1>1, <1>5, <1>6 DEF RunItem, IInv, State, Held
  <2>3. end' = end
    BY DEF RunItem
  <2>4. Progress'
    BY <1>1, <1>3, <1>5, <1>6, <2>3, JobFields DEF Progress
  <2>5. QED
    BY <2>1, <2>2, <2>4 DEF State
<1>8. SentSoFar' /\ CompleteIsLast' /\ EarlierJobsCompleted'
  BY <1>1, <1>5, SilentStep DEF RunItem
<1>9. LastReport' /\ ReportIsTheRecord'
  BY <1>1 DEF RunItem, LastReport, ReportIsTheRecord
<1>10. QED
  BY <1>7, <1>8, <1>9 DEF IInv, Messages

-----------------------------------------------------------------------------
(***************************************************************************)
(* The steps that send a message.                                          *)
(***************************************************************************)
LEMMA SendingStep ==
    ASSUME IInv, pc \notin {"none", "record"}, UNCHANGED <<busy, job>>,
           NEW m \in Message, sent' = Append(sent, m),
           m.job.id = job.id, Consistent(m.job),
           m.type = "complete" => pc' = "record"
    PROVE  sent' \in Seq(Message) /\ SentSoFar' /\ CompleteIsLast' /\ EarlierJobsCompleted'
<1>1. sent \in Seq(Message) /\ Started = job.id /\ Started' = job.id /\ Started \in Nat
  <2>1. job \in Job /\ Started = job.id
    BY HeldJob DEF IInv, State, TypeOK
  <2>2. QED
    BY <2>1, JobFields, BoundsAssumption DEF IInv, State, TypeOK, Started
<1>2. /\ sent' \in Seq(Message)
      /\ Len(sent') = Len(sent) + 1
      /\ \A i \in DOMAIN sent : sent'[i] = sent[i] /\ i \in DOMAIN sent'
      /\ sent'[Len(sent) + 1] = m
      /\ DOMAIN sent' = DOMAIN sent \cup {Len(sent) + 1}
  BY <1>1
<1>3. \A i \in DOMAIN sent :
         /\ Consistent(sent[i].job)
         /\ sent[i].job.id =< Started
         /\ sent[i].type = "complete" => sent[i].job.id # Started
  BY DEF IInv, Messages, SentSoFar
<1>4. SentSoFar'
  <2>1. SUFFICES ASSUME NEW i \in DOMAIN sent'
                 PROVE  /\ Consistent(sent'[i].job)
                        /\ sent'[i].job.id =< Started
                        /\ (sent'[i].type = "complete" /\ sent'[i].job.id = Started)
                              => pc' \in {"record", "none"}
    BY <1>1 DEF SentSoFar, Consistent
  <2>2. CASE i \in DOMAIN sent
    BY <1>2, <1>3, <2>2
  <2>3. CASE i = Len(sent) + 1
    BY <1>1, <1>2, <2>3
  <2>4. QED
    BY <1>2, <2>2, <2>3
<1>5. CompleteIsLast'
  <2>1. SUFFICES ASSUME NEW i \in DOMAIN sent', NEW k \in DOMAIN sent', i < k
                 PROVE  /\ sent'[i].job.id =< sent'[k].job.id
                        /\ sent'[i].type = "complete" => sent'[i].job.id < sent'[k].job.id
    BY DEF CompleteIsLast
  <2>2. i \in DOMAIN sent
    BY <1>1, <1>2, <2>1
  <2>3. CASE k \in DOMAIN sent
    BY <1>2, <2>1, <2>2, <2>3 DEF IInv, Messages, CompleteIsLast
  <2>4. CASE k = Len(sent) + 1
    <3>1. sent'[i] = sent[i] /\ sent'[k] = m /\ sent[i].job.id \in Nat
      <4>1. sent[i] \in Message
        BY <1>1, <2>2
      <4>2. QED
        BY <1>1, <1>2, <2>2, <2>4, <4>1, JobFields, BoundsAssumption DEF Message
    <3>2. QED
      BY <1>1, <1>3, <2>2, <3>1
  <2>5. QED
    BY <1>2, <2>3, <2>4
<1>6. EarlierJobsCompleted'
  BY <1>1, <1>2 DEF IInv, Messages, EarlierJobsCompleted
<1>7. QED
  BY <1>2, <1>4, <1>5, <1>6

LEMMA SendingIInv ==
    ASSUME IInv,
           \/ ReportListFailed \/ ItemStarted
           \/ ItemDone /\ job.kind \notin QuietKinds
    PROVE  IInv'
<1>1. busy /\ job \in Job /\ job # NoJob /\ pc \notin {"none", "record"}
  BY HeldJob DEF ReportListFailed, ItemStarted, ItemDone
<1>2. UNCHANGED <<busy, job, end>>
  BY DEF ReportListFailed, ItemStarted, ItemDone
<1>3. CASE ReportListFailed
  <2> DEFINE j == [job EXCEPT !.status = end]
             m == [type |-> "error", job |-> j]
  <2>1. /\ end = "failed" /\ job.listError /\ job.total = 0
        /\ job.processed = job.succeeded + job.skipped + job.failed
        /\ job.processed =< job.total
    BY <1>1, <1>3 DEF ReportListFailed, IInv, State, Progress
  <2>2. j \in Job /\ j.id = job.id
    <3>1. end \in {"running"} \cup Ends
      BY <2>1 DEF Ends
    <3>2. QED
      BY <1>1, <3>1, SetStatus
  <2>3. Consistent(j)
    <3>1. end \in {"running"} \cup Ends
      BY <2>1 DEF Ends
    <3>2. /\ j.status = end /\ j.total = job.total /\ j.processed = job.processed
          /\ j.listError = job.listError /\ j.succeeded = job.succeeded
          /\ j.skipped = job.skipped /\ j.failed = job.failed
      BY <1>1, <3>1, SetStatus
    <3>3. QED
      BY <2>1, <3>2 DEF Consistent
  <2>4. m \in Message
    BY <2>2 DEF Message
  <2>5. sent' = Append(sent, m) /\ pc' = "finish"
    BY <1>3 DEF ReportListFailed, Send
  <2>6. sent' \in Seq(Message) /\ SentSoFar' /\ CompleteIsLast' /\ EarlierJobsCompleted'
    BY <1>1, <1>2, <2>2, <2>3, <2>4, <2>5, SendingStep
  <2>7. TypeOK' /\ Held'
    BY <1>1, <1>2, <1>3, <2>6 DEF ReportListFailed, IInv, State, TypeOK, Held, PCs
  <2>8. Progress'
    BY <1>1, <1>2, <2>1, <2>3, <2>5 DEF Progress
  <2>9. LastReport' /\ ReportIsTheRecord'
    BY <1>1, <1>2, <2>5 DEF LastReport, ReportIsTheRecord
  <2>10. QED
    BY <2>6, <2>7, <2>8, <2>9 DEF IInv, State, Messages
<1>4. CASE ItemStarted \/ (ItemDone /\ job.kind \notin QuietKinds)
  <2>1. PICK type \in {"started", "done"} : sent' = Append(sent, [type |-> type, job |-> job])
    BY <1>4 DEF ItemStarted, ItemDone, Send
  <2> DEFINE m == [type |-> type, job |-> job]
  <2>2. \/ pc = "announce" /\ pc' = "run"
        \/ pc = "report" /\ pc' = "check"
    BY <1>4 DEF ItemStarted, ItemDone
  <2>3. Consistent(job)
    BY <1>1, <2>2 DEF IInv, State, Held, Progress, Consistent
  <2>4. m \in Message
    BY <1>1 DEF Message
  <2>5. sent' \in Seq(Message) /\ SentSoFar' /\ CompleteIsLast' /\ EarlierJobsCompleted'
    BY <1>1, <1>2, <2>1, <2>2, <2>3, <2>4, SendingStep
  <2>6. TypeOK' /\ Held'
    BY <1>1, <1>2, <1>4, <2>5 DEF ItemStarted, ItemDone, IInv, State, TypeOK, Held, PCs
  <2>7. Progress'
    BY <1>1, <1>2, <2>2 DEF IInv, State, Progress
  <2>8. LastReport' /\ ReportIsTheRecord'
    BY <1>1, <1>2, <2>2 DEF LastReport, ReportIsTheRecord
  <2>9. QED
    BY <2>5, <2>6, <2>7, <2>8 DEF IInv, State, Messages
<1>5. QED
  BY <1>3, <1>4

LEMMA FinishIInv ==
    ASSUME IInv, Finish
    PROVE  IInv'
<1>1. busy /\ job \in Job /\ job # NoJob /\ pc = "finish" /\ pc' = "record"
  BY HeldJob DEF Finish
<1>2. /\ final' = [job EXCEPT !.status = end, !.current = 0]
      /\ sent' = Append(sent, [type |-> "complete", job |-> final'])
      /\ UNCHANGED <<job, busy, cancelCh, end, cancelAt>>
  BY DEF Finish, Send
<1>3. final' \in Job /\ final'.id = job.id /\ Consistent(final')
  <2>1. Consistent([job EXCEPT !.status = end]) /\ end \in Ends
    BY <1>1 DEF IInv, State, TypeOK, Progress
  <2> DEFINE g == [job EXCEPT !.status = end]
             f == [job EXCEPT !.status = end, !.current = 0]
  <2>2. /\ g.status = f.status /\ g.total = f.total /\ g.processed = f.processed
        /\ g.listError = f.listError /\ g.succeeded = f.succeeded
        /\ g.skipped = f.skipped /\ g.failed = f.failed
    BY <1>1, <2>1
  <2>3. f \in Job /\ f.id = job.id
    BY <1>1, <2>1, EndJob
  <2>4. Consistent(f)
    BY <2>1, <2>2 DEF Consistent
  <2>5. QED
    BY <1>2, <2>3, <2>4
<1>4. sent' \in Seq(Message) /\ SentSoFar' /\ CompleteIsLast' /\ EarlierJobsCompleted'
  <2> DEFINE m == [type |-> "complete", job |-> final']
  <2>1. m \in Message /\ m.job.id = job.id /\ Consistent(m.job) /\ sent' = Append(sent, m)
    BY <1>2, <1>3 DEF Message
  <2>2. QED
    BY <1>1, <1>2, <2>1, SendingStep
<1>5. State'
  BY <1>1, <1>2, <1>3, <1>4 DEF IInv, State, TypeOK, Held, Progress, Consistent, PCs
<1>6. LastReport' /\ ReportIsTheRecord'
  BY <1>1, <1>2, <1>3, <1>4 DEF LastReport, ReportIsTheRecord, IInv, State, TypeOK
<1>7. QED
  BY <1>4, <1>5, <1>6 DEF IInv, Messages

-----------------------------------------------------------------------------
(***************************************************************************)
(* The lane changes hands.                                                 *)
(***************************************************************************)
LEMMA RecordIInv ==
    ASSUME IInv, Record
    PROVE  IInv'
<1>1. busy /\ job \in Job /\ job # NoJob /\ pc = "record" /\ pc' = "none" /\ Started = job.id
  BY HeldJob DEF Record
<1>2. /\ job' = [job EXCEPT !.status = final.status, !.current = 0]
      /\ busy' = FALSE
      /\ UNCHANGED <<cancelCh, end, final, sent, cancelAt>>
  BY DEF Record
<1>3. final = [job EXCEPT !.status = end, !.current = 0] /\ Consistent(final) /\ end \in Ends
  BY <1>1 DEF IInv, State, TypeOK, Progress
<1>4. job' = final /\ job' \in Job /\ job'.id = job.id /\ job' # NoJob
  <2>1. final.status = end /\ final.current = 0 /\ final = job' /\ final \in Job /\ final.id = job.id
    BY <1>1, <1>2, <1>3, EndJob
  <2>2. QED
    BY <2>1, NoJobAssumption
<1>5. State'
  <2>1. TypeOK'
    BY <1>1, <1>2, <1>4 DEF IInv, State, TypeOK, PCs
  <2>2. job'.status \in Ends
    BY <1>1, <1>3, <1>4, EndJob
  <2>3. Held' /\ Progress'
    BY <1>1, <1>2, <1>3, <1>4, <2>2 DEF Held, Progress, Consistent, Ends
  <2>4. QED
    BY <2>1, <2>3 DEF State
<1>6. Started' = Started
  BY <1>1, <1>4 DEF Started
<1>7. sent # <<>> /\ sent[Len(sent)] = [type |-> "complete", job |-> final] /\ sent \in Seq(Message)
  BY <1>1 DEF IInv, State, TypeOK, Messages, LastReport
<1>8. SentSoFar' /\ CompleteIsLast'
  BY <1>1, <1>2, <1>6 DEF IInv, Messages, SentSoFar, CompleteIsLast, Consistent
<1>9. EarlierJobsCompleted'
  <2>1. SUFFICES ASSUME NEW id \in 1..Started
                 PROVE  \E i \in DOMAIN sent : sent[i].type = "complete" /\ sent[i].job.id = id
    BY <1>2, <1>6 DEF EarlierJobsCompleted
  <2>2. CASE id = Started
    <3>1. Len(sent) \in DOMAIN sent
      BY <1>7
    <3>2. QED
      BY <1>1, <1>4, <1>7, <2>2, <3>1
  <2>3. CASE id \in 1..(Started - 1)
    BY <1>1, <2>3 DEF IInv, Messages, EarlierJobsCompleted
  <2>4. Started \in Nat
    BY <1>1, JobFields, BoundsAssumption
  <2>5. QED
    BY <2>2, <2>3, <2>4
<1>10. LastReport' /\ ReportIsTheRecord'
  BY <1>1, <1>2, <1>4, <1>7 DEF LastReport, ReportIsTheRecord
<1>11. QED
  BY <1>5, <1>8, <1>9, <1>10 DEF IInv, Messages

LEMMA StartIInv ==
    ASSUME IInv, NEW kind \in Kinds, Start(kind)
    PROVE  IInv'
<1>1. /\ ~ busy /\ busy' /\ pc = "none" /\ pc' = "list" /\ end' = "completed"
      /\ Started < MaxJobs
      /\ job' = NewJob(Started + 1, kind)
      /\ UNCHANGED <<final, sent>>
  BY DEF Start, IInv, State, Held
<1>2. Started \in Nat
  BY JobFields, BoundsAssumption DEF Started, IInv, State, TypeOK
<1>3. /\ job' \in Job /\ job'.id = Started + 1 /\ job'.status = "running"
      /\ job'.total = 0 /\ job'.processed = 0 /\ job'.current = 0 /\ ~ job'.listError
      /\ job'.succeeded = 0 /\ job'.skipped = 0 /\ job'.failed = 0
  BY <1>1, <1>2, BoundsAssumption DEF NewJob, Job
<1>4. job' # NoJob /\ Started' = Started + 1
  BY <1>3, NoJobAssumption DEF Started
<1>5. State'
  <2>1. TypeOK'
    <3>1. -1 \in -1..MaxItems
      BY BoundsAssumption
    <3>2. QED
      BY <1>1, <1>3, <3>1 DEF Start, IInv, State, TypeOK, PCs, Ends
  <2>2. Held' /\ Progress'
    BY <1>1, <1>3, <1>4 DEF Held, Progress
  <2>3. QED
    BY <2>1, <2>2 DEF State
<1>6. SentSoFar'
  <2>1. SUFFICES ASSUME NEW i \in DOMAIN sent
                 PROVE  /\ Consistent(sent[i].job)
                        /\ sent[i].job.id < Started'
    <3>1. \A i \in DOMAIN sent : sent'[i] = sent[i] /\ DOMAIN sent' = DOMAIN sent
      BY <1>1
    <3>2. \A i \in DOMAIN sent : sent[i].job.id \in Nat
      <4>1. \A i \in DOMAIN sent : sent[i] \in Message
        BY DEF IInv, State, TypeOK
      <4>2. QED
        BY <4>1, JobFields, BoundsAssumption DEF Message
    <3>3. QED
      BY <1>1, <1>2, <1>4, <3>1, <3>2 DEF SentSoFar, Consistent
  <2>2. sent[i].job.id \in Nat
    <3>1. sent[i] \in Message
      BY DEF IInv, State, TypeOK
    <3>2. QED
      BY <3>1, JobFields, BoundsAssumption DEF Message
  <2>3. Consistent(sent[i].job) /\ sent[i].job.id =< Started
    BY DEF IInv, Messages, SentSoFar
  <2>4. QED
    BY <1>2, <1>4, <2>2, <2>3
<1>7. CompleteIsLast' /\ LastReport' /\ ReportIsTheRecord'
  BY <1>1 DEF IInv, Messages, CompleteIsLast, LastReport, ReportIsTheRecord
<1>8. EarlierJobsCompleted'
  BY <1>1, <1>2, <1>4 DEF IInv, Messages, EarlierJobsCompleted
<1>9. QED
  BY <1>5, <1>6, <1>7, <1>8 DEF IInv, Messages

LEMMA CancelIInv ==
    ASSUME IInv, NEW kind \in Kinds, NEW id \in 1..MaxJobs, Cancel(kind, id)
    PROVE  IInv'
<1>1. /\ UNCHANGED <<job, busy, pc, end, final, sent>>
      /\ cancelCh' = TRUE
      /\ cancelAt' \in -1..MaxItems
  <2>1. /\ job \in Job /\ UNCHANGED <<job, busy, pc, end, final, sent>> /\ cancelCh' = TRUE
        /\ cancelAt' = IF pc \in {"begin", "announce", "run"} THEN job.processed + 1
                       ELSE job.processed
    BY DEF Cancel, IInv, State, TypeOK
  <2>2. pc \in {"begin", "announce", "run"} => job.processed < job.total
    BY <2>1 DEF Cancel, IInv, State, Progress
  <2>3. QED
    BY <2>1, <2>2, JobFields, BoundsAssumption
<1>2. State'
  BY <1>1 DEF IInv, State, TypeOK, Held, Progress, Consistent
<1>3. Messages'
  BY <1>1 DEF IInv, Messages, SentSoFar, LastReport, CompleteIsLast, EarlierJobsCompleted,
        ReportIsTheRecord, Started, Consistent
<1>4. QED
  BY <1>2, <1>3 DEF IInv

LEMMA StutterIInv ==
    ASSUME IInv, UNCHANGED vars
    PROVE  IInv'
<1>1. State'
  BY DEF vars, IInv, State, TypeOK, Held, Progress, Consistent
<1>2. Messages'
  BY DEF vars, IInv, Messages, SentSoFar, LastReport, CompleteIsLast, EarlierJobsCompleted,
        ReportIsTheRecord, Started, Consistent
<1>3. QED
  BY <1>1, <1>2 DEF IInv

LEMMA NextIInv == IInv /\ [Next]_vars => IInv'
<1> SUFFICES ASSUME IInv, [Next]_vars PROVE IInv'
  OBVIOUS
<1>1. ASSUME NEW kind \in Kinds, Start(kind) PROVE IInv'
  BY <1>1, StartIInv
<1>2. ASSUME NEW kind \in Kinds, NEW id \in 1..MaxJobs, Cancel(kind, id) PROVE IInv'
  BY <1>2, CancelIInv
<1>3. CASE Execute
  <2>1. ASSUME NEW outcome \in Outcomes, RunItem(outcome) PROVE IInv'
    BY <2>1, RunItemIInv
  <2>2. CASE ItemDone
    BY <2>2, SilentIInv, SendingIInv DEF ItemDone
  <2>3. QED
    BY <1>3, <2>1, <2>2, SilentIInv, SendingIInv, FinishIInv, RecordIInv DEF Execute
<1>4. CASE UNCHANGED vars
  BY <1>4, StutterIInv
<1>5. QED
  BY <1>1, <1>2, <1>3, <1>4 DEF Next

LEMMA Invariance == Spec => []IInv
BY InitIInv, NextIInv, PTL DEF Spec

-----------------------------------------------------------------------------
\* The variables keep their types.
THEOREM TypeCorrect == Spec => []TypeOK
<1>1. IInv => TypeOK
  BY DEF IInv, State
<1>2. QED
  BY <1>1, Invariance, PTL

\* A poller never sees a running Job on a free lane, nor a finished one on a
\* busy lane.
THEOREM LaneMatchesRecord == Spec => []FinishedIffFree
<1>1. IInv => FinishedIffFree
  BY DEF IInv, State, Held, FinishedIffFree
<1>2. QED
  BY <1>1, Invariance, PTL

\* Every count a poller or a message shows adds up, and every Job ends the way
\* its counts say.
THEOREM CountsAddUp == Spec => []CountsAgree
<1>1. IInv => CountsAgree
  <2>1. ASSUME IInv, job # NoJob PROVE Consistent(job)
    <3>1. job \in Job /\ job.status \in {"running"} \cup Ends
      BY <2>1, JobFields DEF IInv, State, TypeOK
    <3>2. CASE pc = "none"
      BY <2>1, <3>2 DEF IInv, State, Progress
    <3>3. CASE pc # "none"
      BY <2>1, <3>3 DEF IInv, State, Held, Progress, Consistent
    <3>4. QED
      BY <3>2, <3>3
  <2>2. QED
    BY <2>1 DEF IInv, Messages, SentSoFar, CountsAgree
<1>2. QED
  BY <1>1, Invariance, PTL

\* A Job's complete message is its last one and comes before anything of the
\* next Job, and every earlier Job has sent its own.
THEOREM CompleteMessages ==
    Spec => [](CompleteIsLast /\ EarlierJobsCompleted)
<1>1. IInv => CompleteIsLast /\ EarlierJobsCompleted
  BY DEF IInv, Messages
<1>2. QED
  BY <1>1, Invariance, PTL

\* The last message told the state a poller sees of the Job that ended.
THEOREM RecordedAsReported == Spec => []ReportIsTheRecord
<1>1. IInv => ReportIsTheRecord
  BY DEF IInv, Messages
<1>2. QED
  BY <1>1, Invariance, PTL

\* Once cancelled, a Job runs the item it has begun and no other: one more is
\* allowed only while that item is on its way.
Stopping ==
    /\ job # NoJob /\ pc \notin {"announce", "run"} => job.current =< job.processed
    /\ cancelCh => /\ job # NoJob
                   /\ job.current =< cancelAt /\ job.processed =< cancelAt
                   /\ pc \in {"begin", "announce", "run"} => job.processed + 1 =< cancelAt

LEMMA StoppingStep == IInv /\ Stopping /\ [Next]_vars => Stopping'
<1> SUFFICES ASSUME IInv, Stopping, [Next]_vars PROVE Stopping'
  OBVIOUS
<1>1. /\ job \in Job \cup {NoJob} /\ cancelAt \in Int /\ cancelCh \in BOOLEAN
      /\ job # NoJob => job.processed \in Nat /\ job.current \in Nat
  BY JobFields DEF IInv, State, TypeOK
<1>2. ASSUME NEW kind \in Kinds, Start(kind) PROVE Stopping'
  BY <1>2, BoundsAssumption DEF Start, NewJob, Stopping
<1>3. ASSUME NEW kind \in Kinds, NEW id \in 1..MaxJobs, Cancel(kind, id) PROVE Stopping'
  <2>1. /\ UNCHANGED <<job, pc>> /\ job # NoJob
        /\ cancelAt' = IF pc \in {"begin", "announce", "run"} THEN job.processed + 1
                       ELSE job.processed
    BY <1>3 DEF Cancel
  <2>2. pc \in {"announce", "run"} => job.current = job.processed + 1
    BY DEF IInv, State, Progress
  <2> QED
    BY <1>1, <2>1, <2>2 DEF Stopping
<1>4. ASSUME pc # "none", job # NoJob, job' # NoJob, UNCHANGED <<cancelCh, cancelAt>>,
             job'.processed = job.processed, job'.current = job.current,
             pc' \in {"announce", "run"} \/ pc \notin {"announce", "run"},
             pc' \in {"begin", "announce", "run"} => pc \in {"begin", "announce", "run"} \/ ~ cancelCh
      PROVE  Stopping'
  BY <1>4 DEF Stopping
<1>5. pc # "none" => job \in Job /\ job # NoJob
  BY HeldJob
<1>6. CASE \E n \in 0..MaxItems : List(n)
  <2> PICK n \in 0..MaxItems : List(n)
    BY <1>6
  <2>1. /\ job' = [job EXCEPT !.total = n] /\ pc = "list" /\ pc' = "check"
        /\ UNCHANGED <<cancelCh, cancelAt>>
    BY DEF List
  <2>2. job' \in Job /\ job'.processed = job.processed /\ job'.current = job.current
    BY <1>5, <2>1, SetTotal
  <2> QED
    BY <1>4, <1>5, <2>1, <2>2, NoJobAssumption
<1>7. CASE ListFails
  <2>1. /\ job' = [job EXCEPT !.listError = TRUE] /\ pc = "list" /\ pc' = "listFailed"
        /\ UNCHANGED <<cancelCh, cancelAt>>
    BY <1>7 DEF ListFails
  <2>2. job' \in Job /\ job'.processed = job.processed /\ job'.current = job.current
    BY <1>5, <2>1, SetListError
  <2> QED
    BY <1>4, <1>5, <2>1, <2>2, NoJobAssumption
<1>8. CASE ReportListFailed \/ Check \/ ItemStarted \/ ItemDone \/ Finish
  <2>1. UNCHANGED <<job, cancelCh, cancelAt>> /\ pc # "none"
    BY <1>8 DEF ReportListFailed, Check, ItemStarted, ItemDone, Finish
  <2>2. /\ pc' \in {"begin", "announce", "run"} => pc \in {"begin", "announce", "run"} \/ ~ cancelCh
        /\ pc' \in {"announce", "run"} \/ pc \notin {"announce", "run"}
    BY <1>8 DEF ReportListFailed, Check, ItemStarted, ItemDone, Finish
  <2> QED
    BY <1>4, <1>5, <2>1, <2>2
<1>9. CASE BeginItem
  <2>1. /\ job' = [job EXCEPT !.current = job.current + 1] /\ pc = "begin" /\ pc' = "announce"
        /\ UNCHANGED <<cancelCh, cancelAt>>
    BY <1>9 DEF BeginItem
  <2>2. /\ job.current = job.processed /\ job.processed < job.total
    BY <2>1 DEF IInv, State, Progress
  <2>3. job.current + 1 \in 0..MaxItems
    BY <1>5, <2>1, <2>2, JobFields, BoundsAssumption
  <2>4. job' \in Job /\ job'.processed = job.processed /\ job'.current = job.processed + 1
    BY <1>5, <2>1, <2>2, <2>3, SetCurrent
  <2> QED
    BY <1>1, <1>5, <2>1, <2>4, NoJobAssumption DEF Stopping
<1>10. CASE \E outcome \in Outcomes : RunItem(outcome)
  <2> PICK outcome \in Outcomes : RunItem(outcome)
    BY <1>10
  <2>1. /\ job' = [job EXCEPT !.processed = job.current, ![outcome] = @ + 1] /\ pc = "run"
        /\ pc' = "report" /\ UNCHANGED <<cancelCh, cancelAt>>
    BY DEF RunItem
  <2>2. job.current = job.processed + 1
    BY <2>1 DEF IInv, State, Progress
  <2>3. /\ job' \in Job \cup {NoJob} /\ job' # NoJob
        /\ job'.processed = job.current /\ job'.current = job.current
    <3>1. IInv'
      BY NextIInv
    <3>2. job' \in Job \cup {NoJob} /\ busy' /\ job' # NoJob
      BY <2>1, <3>1, <1>5 DEF IInv, State, TypeOK, Held
    <3>3. job'.processed = job.current /\ job'.current = job.current
      BY <1>5, <2>1 DEF Job, Outcomes
    <3> QED
      BY <3>2, <3>3
  <2> QED
    BY <1>1, <1>5, <2>1, <2>2, <2>3 DEF Stopping
<1>11. CASE Record
  <2>1. /\ job' = [job EXCEPT !.status = final.status, !.current = 0] /\ pc = "record"
        /\ pc' = "none" /\ UNCHANGED <<cancelCh, cancelAt>>
    BY <1>11 DEF Record
  <2>2. job'.processed = job.processed /\ job'.current = 0
    BY <1>5, <2>1 DEF Job
  <2>3. job' # NoJob
    <3>1. end \in Ends /\ final = [job EXCEPT !.status = end, !.current = 0]
      BY <2>1 DEF IInv, State, TypeOK, Progress
    <3>2. final.status = end
      BY <1>5, <2>1, <3>1, EndJob
    <3>3. job' \in Job
      BY <1>5, <2>1, <3>1, <3>2, EndJob
    <3> QED
      BY <3>3, NoJobAssumption
  <2> QED
    BY <1>1, <1>5, <2>1, <2>2, <2>3 DEF Stopping
<1>12. CASE UNCHANGED vars
  BY <1>12 DEF vars, Stopping
<1> QED
  BY <1>2, <1>3, <1>6, <1>7, <1>8, <1>9, <1>10, <1>11, <1>12 DEF Next, Execute

\* A cancelled Job begins no item after the one in progress, wherever the
\* cancellation finds its goroutine.
THEOREM CancelTakesEffect == Spec => []CancelStopsSoon
<1>1. Init => Stopping
  BY DEF Init, Stopping
<1>2. Stopping => CancelStopsSoon
  BY DEF Stopping, CancelStopsSoon
<1>3. QED
  BY <1>1, <1>2, Invariance, StoppingStep, PTL DEF Spec

-----------------------------------------------------------------------------
(***************************************************************************)
(* The lane implements what ADR-0014 promises.                             *)
(***************************************************************************)
LEMMA Appended ==
    ASSUME IInv, NEW m \in Message, sent' = Append(sent, m)
    PROVE  Completed' = IF m.type = "complete" THEN Completed \cup {m.job.id} ELSE Completed
<1>1. /\ DOMAIN sent' = DOMAIN sent \cup {Len(sent) + 1}
      /\ \A i \in DOMAIN sent : sent'[i] = sent[i]
      /\ sent'[Len(sent) + 1] = m
  BY DEF IInv, State, TypeOK
<1>2. QED
  BY <1>1 DEF Completed

LEMMA CompletedJobs ==
    ASSUME IInv
    PROVE  /\ pc \notin {"record", "none"} => Started \notin Completed
           /\ pc = "record" => Started \in Completed
<1>1. pc \notin {"record", "none"} => Started \notin Completed
  BY DEF IInv, Messages, SentSoFar, Completed
<1>2. ASSUME pc = "record" PROVE Started \in Completed
  <2>1. Len(sent) \in DOMAIN sent /\ sent[Len(sent)] = [type |-> "complete", job |-> final]
    BY <1>2 DEF IInv, State, TypeOK, Messages, LastReport
  <2>2. job \in Job /\ Started = job.id /\ end \in Ends
    BY <1>2, HeldJob DEF IInv, State, TypeOK
  <2>3. final.id = job.id
    BY <1>2, <2>2, EndJob DEF IInv, State, Progress
  <2>4. QED
    BY <2>1, <2>2, <2>3 DEF Completed
<1>3. QED
  BY <1>1, <1>2

LEMMA ImplementsInit == Init => Promise!Init
BY DEF Init, Promise!Init, Started, Completed

LEMMA StartStep ==
    ASSUME IInv, NEW kind \in Kinds, Start(kind)
    PROVE  Promise!StartJob
<1>1. ~ busy /\ busy' /\ Started < MaxJobs /\ job' = NewJob(Started + 1, kind) /\ UNCHANGED sent
  BY DEF Start, IInv, State, TypeOK
<1>2. Started \in Nat
  BY JobFields, BoundsAssumption DEF Started, IInv, State, TypeOK
<1>3. job' \in Job /\ job'.id = Started + 1
  BY <1>1, <1>2, BoundsAssumption DEF NewJob, Job
<1>4. Started' = Started + 1
  BY <1>3, NoJobAssumption DEF Started
<1>5. QED
  BY <1>1, <1>4 DEF Promise!StartJob, Completed

LEMMA FinishStep ==
    ASSUME IInv, Finish
    PROVE  Promise!SendComplete
<1>1. busy /\ job \in Job /\ pc = "finish" /\ Started = job.id /\ end \in Ends
  BY HeldJob DEF Finish, IInv, State, TypeOK
<1>2. final' \in Job /\ final'.id = job.id
  BY <1>1, EndJob DEF Finish
<1>3. Completed' = Completed \cup {Started}
  <2> DEFINE m == [type |-> "complete", job |-> final']
  <2>1. m \in Message /\ sent' = Append(sent, m) /\ m.type = "complete" /\ m.job.id = Started
    BY <1>1, <1>2 DEF Finish, Send, Message
  <2>2. QED
    BY <2>1, Appended
<1>4. UNCHANGED <<Started, busy>>
  BY DEF Finish, Started
<1>5. QED
  BY <1>1, <1>3, <1>4, CompletedJobs DEF Promise!SendComplete

LEMMA RecordStep ==
    ASSUME IInv, Record
    PROVE  Promise!FreeLane
<1>1. busy /\ job \in Job /\ pc = "record" /\ end \in Ends
  BY HeldJob DEF Record, IInv, State, TypeOK
<1>2. job' \in Job /\ job'.id = job.id
  <2>1. final = [job EXCEPT !.status = end, !.current = 0]
    BY <1>1 DEF IInv, State, Progress
  <2>2. final.status = end
    BY <1>1, <2>1, EndJob
  <2>3. job' = [job EXCEPT !.status = end, !.current = 0]
    BY <2>2 DEF Record
  <2>4. QED
    BY <1>1, <2>3, EndJob
<1>3. UNCHANGED <<Started, Completed>>
  BY <1>1, <1>2, NoJobAssumption DEF Record, Started, Completed
<1>4. Started \in Completed
  BY CompletedJobs DEF Record
<1>5. busy' = FALSE
  BY DEF Record
<1>6. QED
  BY <1>1, <1>3, <1>4, <1>5 DEF Promise!FreeLane

\* Every other step is one the promise does not see.
LEMMA HiddenStep ==
    ASSUME IInv, IInv',
           \/ \E n \in 0..MaxItems : List(n)
           \/ ListFails \/ ReportListFailed \/ Check \/ BeginItem \/ ItemStarted
           \/ \E outcome \in Outcomes : RunItem(outcome)
           \/ ItemDone
    PROVE  UNCHANGED <<Started, busy, Completed>>
<1>1. busy /\ job \in Job /\ job # NoJob /\ UNCHANGED busy /\ pc' # "none"
  BY HeldJob DEF List, ListFails, ReportListFailed, Check, BeginItem, ItemStarted, RunItem, ItemDone
<1>2. UNCHANGED Started
  <2>1. job' \in Job \cup {NoJob} /\ job' # NoJob
    BY <1>1 DEF IInv, State, TypeOK, Held
  <2>2. job'.id = job.id
    BY <1>1, <2>1 DEF List, ListFails, ReportListFailed, Check, BeginItem, ItemStarted, RunItem,
          ItemDone, Job, Outcomes
  <2>3. QED
    BY <1>1, <2>1, <2>2 DEF Started
<1>3. UNCHANGED Completed
  <2>1. CASE UNCHANGED sent
    BY <2>1 DEF Completed
  <2>2. CASE \E m \in Message : sent' = Append(sent, m) /\ m.type # "complete"
    BY <2>2, Appended
  <2>3. CASE ReportListFailed
    <3>1. end \in {"running"} \cup Ends
      BY DEF IInv, State, TypeOK
    <3>2. [type |-> "error", job |-> [job EXCEPT !.status = end]] \in Message
      BY <1>1, <3>1, SetStatus DEF Message
    <3>3. QED
      BY <2>2, <2>3, <3>2 DEF ReportListFailed, Send
  <2>4. CASE ItemStarted \/ ItemDone
    <3>1. [type |-> "started", job |-> job] \in Message /\ [type |-> "done", job |-> job] \in Message
      BY <1>1 DEF Message
    <3>2. QED
      BY <2>1, <2>2, <2>4, <3>1 DEF ItemStarted, ItemDone, Send
  <2>5. QED
    BY <2>1, <2>3, <2>4 DEF List, ListFails, Check, BeginItem, RunItem
<1>4. QED
  BY <1>1, <1>2, <1>3

LEMMA ImplementsNext ==
    ASSUME IInv, IInv', [Next]_vars
    PROVE  [Promise!Next]_(Promise!vars)
<1>1. ASSUME NEW kind \in Kinds, Start(kind) PROVE Promise!Next
  BY <1>1, StartStep DEF Promise!Next
<1>2. ASSUME NEW kind \in Kinds, NEW id \in 1..MaxJobs, Cancel(kind, id)
      PROVE UNCHANGED Promise!vars
  BY <1>2 DEF Cancel, Promise!vars, Started, Completed
<1>3. CASE Execute
  <2>1. CASE Finish \/ Record
    BY <2>1, FinishStep, RecordStep DEF Promise!Next
  <2>2. CASE ~ (Finish \/ Record)
    BY <1>3, <2>2, HiddenStep DEF Execute, Promise!vars
  <2>3. QED
    BY <2>1, <2>2
<1>4. CASE UNCHANGED vars
  BY <1>4 DEF vars, Promise!vars, Started, Completed
<1>5. QED
  BY <1>1, <1>2, <1>3, <1>4 DEF Next

\* Every behaviour of the lane is one ADR-0014 allows: a Job starts on a free
\* lane only, and frees it only after its one complete message.
THEOREM Implementation == Spec => ImplementsLane
<1>1. IInv /\ IInv' /\ [Next]_vars => [Promise!Next]_(Promise!vars)
  BY ImplementsNext
<1>2. QED
  BY <1>1, ImplementsInit, Invariance, PTL DEF Spec, ImplementsLane, Promise!Spec
=============================================================================
