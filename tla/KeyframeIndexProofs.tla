------------------------- MODULE KeyframeIndexProofs ------------------------
(***************************************************************************)
(* Theorems about KeyframeIndex for any plays, Videos and probes.          *)
(***************************************************************************)
EXTENDS KeyframeIndex, TLAPS

Active(s) == run[s].at # "idle"

\* A play, and a probe, that is under way is about a Video.
Asking == \A p \in Plays : step[p] # "idle" => asked[p] \in Videos
Probing == \A s \in Runs : Active(s) => run[s].video \in Videos

\* The Media Lane's probe never clears inflight.
NoLaneClear == run[Lane].at # "clear"

\* The background probes and the entries of inflight pair up.
Paired ==
    /\ \A s \in Probes : Active(s) => run[s].video \in inflight
    /\ \A v \in inflight : \E s \in Probes : Active(s) /\ run[s].video = v

\* What a play remembers of the moment it asked still holds.
SawIndex ==
    \A p \in Plays : sawIndex[p] =>
        /\ step[p] \in {"idle", "get"}
        /\ step[p] = "get" => asked[p] \in indexed
Held == \A p \in Plays : held[p] => step[p] \in {"get", "check"} /\ asked[p] \in cooling

\* The inductive invariant: of the plays, and of the probes.
PlaysInv == Asking /\ SawIndex /\ IndexedIsServed /\ Held
RunsInv == Probing /\ OneBackgroundProbe /\ Paired
IInv == TypeOK /\ PlaysInv /\ RunsInv

LEMMA InitIInv == Init => IInv
BY KeyframeAssumption DEF Init, IInv, TypeOK, PlaysInv, RunsInv, Asking, Probing, OneBackgroundProbe,
      Paired, SawIndex, IndexedIsServed, Held, Active, Runs, Run, Idle

-----------------------------------------------------------------------------
(***************************************************************************)
(* Steps of a play                                                         *)
(***************************************************************************)
LEMMA AnswerPlays ==
    ASSUME TypeOK, PlaysInv, NEW p \in Plays, NEW a \in {"segments", "preparing", "failed", "error"},
           Answer(p, a), UNCHANGED <<cooling, indexed, good, faults, sawIndex>>,
           sawIndex[p] => a \in {"segments", "error"}
    PROVE  /\ PlaysInv'
           /\ asked' \in [Plays -> Videos \cup {NoVideo}]
           /\ step' \in [Plays -> {"idle", "get", "check", "trigger"}]
           /\ answer' \in [Plays -> {"none", "segments", "preparing", "failed", "error"}]
           /\ held' \in [Plays -> BOOLEAN]
<1>1. \A q \in Plays : q # p => /\ asked'[q] = asked[q] /\ step'[q] = step[q]
                                /\ answer'[q] = answer[q] /\ held'[q] = held[q]
  BY DEF Answer, TypeOK
<1>2. step'[p] = "idle" /\ answer'[p] = a /\ held'[p] = FALSE
  BY DEF Answer, TypeOK
<1>3. Asking' /\ SawIndex' /\ IndexedIsServed' /\ Held'
  BY <1>1, <1>2 DEF PlaysInv, Asking, SawIndex, IndexedIsServed, Held
<1>4. QED
  BY <1>3 DEF Answer, TypeOK, PlaysInv

LEMMA ContinuePlays ==
    ASSUME TypeOK, PlaysInv, NEW p \in Plays, NEW at \in {"check", "trigger"},
           step[p] # "idle", Continue(p, at), UNCHANGED <<cooling, indexed, good, faults, sawIndex>>,
           ~ sawIndex[p], held[p] => at = "check"
    PROVE  PlaysInv' /\ step' \in [Plays -> {"idle", "get", "check", "trigger"}]
<1>1. \A q \in Plays : q # p => step'[q] = step[q]
  BY DEF Continue, TypeOK
<1>2. step'[p] = at /\ UNCHANGED <<asked, answer, held>>
  BY DEF Continue, TypeOK
<1>3. Asking' /\ SawIndex' /\ IndexedIsServed' /\ Held'
  BY <1>1, <1>2 DEF PlaysInv, Asking, SawIndex, IndexedIsServed, Held
<1>4. QED
  BY <1>3 DEF Continue, TypeOK, PlaysInv

LEMMA PlayIInv ==
    ASSUME IInv, NEW p \in Plays, NEW v \in Videos, Play(p, v)
    PROVE  IInv'
<1>1. \A q \in Plays : q # p => /\ asked'[q] = asked[q] /\ step'[q] = step[q]
                                /\ answer'[q] = answer[q] /\ held'[q] = held[q]
                                /\ sawIndex'[q] = sawIndex[q]
  BY DEF Play, IInv, TypeOK
<1>2. /\ asked'[p] = v /\ step'[p] = "get" /\ answer'[p] = "none"
      /\ sawIndex'[p] = (v \in indexed) /\ held'[p] = (v \in cooling)
      /\ UNCHANGED <<run, inflight, cooling, indexed, good, faults>>
  BY DEF Play, IInv, TypeOK
<1>3. PlaysInv'
  BY <1>1, <1>2 DEF IInv, PlaysInv, Asking, SawIndex, IndexedIsServed, Held
<1>4. RunsInv'
  BY <1>2 DEF IInv, RunsInv, Probing, OneBackgroundProbe, Paired, Active
<1>5. TypeOK'
  BY DEF Play, IInv, TypeOK
<1>6. QED
  BY <1>3, <1>4, <1>5 DEF IInv

LEMMA LookIInv ==
    ASSUME IInv, NEW p \in Plays, Get(p) \/ Check(p)
    PROVE  IInv'
<1>1. UNCHANGED <<run, inflight, cooling, indexed, good, faults, sawIndex>>
  BY DEF Get, Check
<1>2. RunsInv'
  BY <1>1 DEF IInv, RunsInv, Probing, OneBackgroundProbe, Paired, Active
<1>3. CASE \E a \in {"segments", "failed", "error"} : Answer(p, a) /\ (sawIndex[p] => a # "failed")
  <2>1. PICK a \in {"segments", "failed", "error"} : Answer(p, a) /\ (sawIndex[p] => a # "failed")
    BY <1>3
  <2>2. QED
    BY <1>1, <1>2, <2>1, AnswerPlays DEF IInv, TypeOK
<1>4. CASE \E at \in {"check", "trigger"} :
              /\ Continue(p, at) /\ step[p] # "idle"
              /\ ~ sawIndex[p] /\ (held[p] => at = "check")
  <2>1. PICK at \in {"check", "trigger"} :
              /\ Continue(p, at) /\ step[p] # "idle"
              /\ ~ sawIndex[p] /\ (held[p] => at = "check")
    BY <1>4
  <2>2. UNCHANGED <<asked, answer, held>>
    BY <2>1 DEF Continue
  <2>3. QED
    BY <1>1, <1>2, <2>1, <2>2, ContinuePlays DEF IInv, TypeOK
<1>5. CASE Get(p)
  BY <1>3, <1>4, <1>5 DEF Get, IInv, PlaysInv, SawIndex
<1>6. CASE Check(p)
  BY <1>3, <1>4, <1>6 DEF Check, IInv, PlaysInv, SawIndex, Held
<1>7. QED
  BY <1>5, <1>6

LEMMA TriggerIInv ==
    ASSUME IInv, NEW p \in Plays, Trigger(p)
    PROVE  IInv'
<1>1. /\ step[p] = "trigger" /\ Answer(p, "preparing")
      /\ UNCHANGED <<cooling, indexed, good, faults, sawIndex>>
      /\ ~ sawIndex[p] /\ asked[p] \in Videos
  BY DEF Trigger, IInv, PlaysInv, SawIndex, Asking
<1>2. /\ PlaysInv'
      /\ asked' \in [Plays -> Videos \cup {NoVideo}]
      /\ step' \in [Plays -> {"idle", "get", "check", "trigger"}]
      /\ answer' \in [Plays -> {"none", "segments", "preparing", "failed", "error"}]
      /\ held' \in [Plays -> BOOLEAN]
  BY <1>1, AnswerPlays DEF IInv
<1>3. CASE UNCHANGED <<run, inflight>>
  <2>1. RunsInv'
    BY <1>3 DEF IInv, RunsInv, Probing, OneBackgroundProbe, Paired, Active
  <2>2. QED
    BY <1>1, <1>2, <1>3, <2>1 DEF IInv, TypeOK
<1>4. CASE asked[p] \notin inflight
  <2>1. PICK s \in Probes :
           /\ run[s].at = "idle"
           /\ run' = [run EXCEPT ![s] = [video |-> asked[p], at |-> "probe", result |-> "none"]]
    BY <1>4 DEF Trigger
  <2>2. inflight' = inflight \cup {asked[p]}
    BY <1>4 DEF Trigger
  <2>3. /\ run' \in [Runs -> Run]
        /\ run'[s].video = asked[p] /\ run'[s].at = "probe"
        /\ \A t \in Runs : t # s => run'[t] = run[t]
    BY <1>1, <2>1 DEF IInv, TypeOK, Runs, Run
  <2>4. RunsInv'
    BY <1>1, <1>4, <2>1, <2>2, <2>3 DEF IInv, RunsInv, Probing, OneBackgroundProbe, Paired, Active, Runs
  <2>5. TypeOK'
    BY <1>1, <1>2, <2>2, <2>3 DEF IInv, TypeOK
  <2>6. QED
    BY <1>2, <2>4, <2>5 DEF IInv
<1>5. QED
  BY <1>3, <1>4 DEF Trigger

-----------------------------------------------------------------------------
(***************************************************************************)
(* Steps of a probe                                                        *)
(***************************************************************************)
\* A probe that goes on with the same Video.
LEMMA MoveRuns ==
    ASSUME TypeOK, RunsInv, NEW s \in Runs, Active(s), UNCHANGED inflight,
           NEW at \in {"store", "record", "clear"},
           NEW result \in {"none", "ok", "unindexable", "notStored"},
           run' = [run EXCEPT ![s].at = at, ![s].result = result]
    PROVE  RunsInv' /\ run' \in [Runs -> Run]
<1>1. /\ run'[s].video = run[s].video /\ run'[s].at = at
      /\ \A t \in Runs : t # s => run'[t] = run[t]
      /\ run' \in [Runs -> Run]
  <2> DEFINE moved == [run[s] EXCEPT !.at = at, !.result = result]
  <2>1. run \in [Runs -> Run] /\ run[s] \in Run
    BY DEF TypeOK
  <2>2. moved \in Run /\ moved.video = run[s].video /\ moved.at = at
    BY <2>1 DEF Run
  <2>3. run' = [run EXCEPT ![s] = moved]
    BY <2>1 DEF Run
  <2> HIDE DEF moved
  <2>4. QED
    BY <2>1, <2>2, <2>3
<1>2. \A t \in Runs : run'[t].video = run[t].video /\ (Active(t)' <=> Active(t))
  BY <1>1 DEF Active
<1>3. QED
  BY <1>1, <1>2 DEF RunsInv, Probing, OneBackgroundProbe, Paired, Runs, Active

LEMMA ProbeFileIInv ==
    ASSUME IInv, NEW s \in Runs, ProbeFile(s)
    PROVE  IInv'
<1>1. PICK at \in {"store", "record"}, result \in {"none", "unindexable"} :
         run' = [run EXCEPT ![s].at = at, ![s].result = result]
  BY DEF ProbeFile, Move
<1>2. RunsInv' /\ run' \in [Runs -> Run]
  BY <1>1, MoveRuns DEF ProbeFile, IInv, Active
<1>3. PlaysInv'
  BY DEF ProbeFile, IInv, plays, PlaysInv, Asking, SawIndex, IndexedIsServed, Held
<1>4. QED
  BY <1>2, <1>3 DEF ProbeFile, IInv, TypeOK, plays

LEMMA StoreIInv ==
    ASSUME IInv, NEW s \in Runs, Store(s)
    PROVE  IInv'
<1>1. PICK result \in {"ok", "notStored"} :
         run' = [run EXCEPT ![s].at = "record", ![s].result = result]
  BY DEF Store, Move
<1>2. RunsInv' /\ run' \in [Runs -> Run]
  BY <1>1, MoveRuns DEF Store, IInv, Active
<1>3. indexed \subseteq indexed' /\ indexed' \in SUBSET Videos
  BY DEF Store, IInv, TypeOK, RunsInv, Probing, Active
<1>4. PlaysInv'
  BY <1>3 DEF Store, IInv, plays, PlaysInv, Asking, SawIndex, IndexedIsServed, Held
<1>5. QED
  BY <1>2, <1>3, <1>4 DEF Store, IInv, TypeOK, plays

LEMMA RecordIInv ==
    ASSUME IInv, NEW s \in Runs, Record(s)
    PROVE  IInv'
<1>1. run[s].video \in Videos /\ cooling' \in SUBSET Videos
  BY DEF Record, IInv, TypeOK, RunsInv, Probing, Active
<1>2. PlaysInv' /\ held' \in [Plays -> BOOLEAN]
  BY DEF Record, IInv, TypeOK, plays, PlaysInv, Asking, SawIndex, IndexedIsServed, Held
<1>3. RunsInv' /\ run' \in [Runs -> Run]
  <2>1. CASE s = Lane
    <3>1. run' = [run EXCEPT ![s] = Idle] /\ UNCHANGED inflight /\ s \notin Probes
      BY <2>1, KeyframeAssumption DEF Record, Stopped
    <3>2. /\ run' \in [Runs -> Run] /\ run'[s].at = "idle"
          /\ \A t \in Runs : t # s => run'[t] = run[t]
      BY <3>1 DEF IInv, TypeOK, Run, Idle
    <3>3. QED
      BY <3>1, <3>2 DEF IInv, RunsInv, Probing, OneBackgroundProbe, Paired, Active, Runs
  <2>2. CASE s # Lane
    <3>1. run' = [run EXCEPT ![s].at = "clear", ![s].result = run[s].result]
      BY <2>2 DEF Record, Stopped, IInv, TypeOK, Run
    <3>2. run[s].result \in {"none", "ok", "unindexable", "notStored"}
      BY DEF IInv, TypeOK, Run
    <3>3. QED
      BY <3>1, <3>2, MoveRuns DEF Record, IInv, Active
  <2>3. QED
    BY <2>1, <2>2
<1>4. QED
  BY <1>1, <1>2, <1>3 DEF Record, IInv, TypeOK, plays

LEMMA ClearIInv ==
    ASSUME IInv, NEW s \in Runs, Clear(s), s \in Probes
    PROVE  IInv'
<1>1. /\ run' \in [Runs -> Run] /\ run'[s].at = "idle"
      /\ \A t \in Runs : t # s => run'[t] = run[t]
      /\ Active(s) /\ inflight' = inflight \ {run[s].video}
  BY DEF Clear, IInv, TypeOK, Run, Idle, Active
<1>2. Probing' /\ OneBackgroundProbe'
  BY <1>1 DEF IInv, RunsInv, Probing, OneBackgroundProbe, Active, Runs
<1>3. Paired'
  BY <1>1 DEF IInv, RunsInv, OneBackgroundProbe, Paired, Active, Runs
<1>4. PlaysInv'
  BY DEF Clear, IInv, plays, PlaysInv, Asking, SawIndex, IndexedIsServed, Held
<1>5. QED
  BY <1>1, <1>2, <1>3, <1>4 DEF Clear, IInv, TypeOK, RunsInv, plays

LEMMA EnsureIInv ==
    ASSUME IInv, NEW v \in Videos, Ensure(v)
    PROVE  IInv'
<1>1. /\ run' \in [Runs -> Run] /\ run'[Lane].video = v /\ Lane \notin Probes
      /\ \A t \in Runs : t # Lane => run'[t] = run[t]
      /\ UNCHANGED inflight
  BY KeyframeAssumption DEF Ensure, IInv, TypeOK, Run, Runs
<1>2. RunsInv'
  BY <1>1 DEF IInv, RunsInv, Probing, OneBackgroundProbe, Paired, Active, Runs
<1>3. PlaysInv'
  BY DEF Ensure, IInv, plays, PlaysInv, Asking, SawIndex, IndexedIsServed, Held
<1>4. QED
  BY <1>1, <1>2, <1>3 DEF Ensure, IInv, TypeOK, plays

-----------------------------------------------------------------------------
(***************************************************************************)
(* Time, the disks and a restart                                           *)
(***************************************************************************)
LEMMA WorldIInv ==
    ASSUME IInv, (\E v \in Videos : Expire(v) \/ FileChanges(v)) \/ Settle \/ UNCHANGED vars
    PROVE  IInv'
<1>1. UNCHANGED <<plays, run, inflight, indexed>>
  BY DEF Expire, FileChanges, Settle, vars, plays
<1>2. RunsInv'
  BY <1>1 DEF IInv, RunsInv, Probing, OneBackgroundProbe, Paired, Active
<1>3. /\ Held' /\ held' \in [Plays -> BOOLEAN]
      /\ cooling' \in SUBSET Videos /\ good' \in SUBSET Videos /\ faults' \in BOOLEAN
  BY <1>1 DEF IInv, TypeOK, PlaysInv, Held, Expire, FileChanges, Settle, vars, plays
<1>4. PlaysInv'
  BY <1>1, <1>3 DEF IInv, plays, PlaysInv, Asking, SawIndex, IndexedIsServed
<1>5. QED
  BY <1>1, <1>2, <1>3, <1>4 DEF IInv, TypeOK, plays

LEMMA RestartIInv ==
    ASSUME IInv, Restart
    PROVE  IInv'
BY KeyframeAssumption DEF Restart, IInv, TypeOK, PlaysInv, RunsInv, Asking, Probing, OneBackgroundProbe,
      Paired, SawIndex, IndexedIsServed, Held, Active, Runs, Run, Idle

\* The Media Lane's probe never reaches the step that clears inflight.
LEMMA LaneClears ==
    ASSUME IInv, NoLaneClear, NEW s \in Runs, Clear(s)
    PROVE  s \in Probes
BY DEF NoLaneClear, Clear, Runs

LEMMA NextIInv == IInv /\ NoLaneClear /\ [Next]_vars => IInv' /\ NoLaneClear'
<1> SUFFICES ASSUME IInv, NoLaneClear, [Next]_vars PROVE IInv' /\ NoLaneClear'
  OBVIOUS
<1>1. IInv'
  BY PlayIInv, LookIInv, TriggerIInv, ProbeFileIInv, StoreIInv, RecordIInv, ClearIInv, LaneClears,
     EnsureIInv, WorldIInv, RestartIInv DEF Next, Look, Work
<1>2. NoLaneClear'
  <2>1. CASE UNCHANGED run
    BY <2>1 DEF NoLaneClear
  <2>2. CASE \E p \in Plays : Trigger(p)
    BY <2>2, KeyframeAssumption DEF Trigger, NoLaneClear, IInv, TypeOK, Runs
  <2>3. CASE \E s \in Runs : ProbeFile(s) \/ Store(s) \/ Record(s) \/ Clear(s)
    BY <2>3 DEF ProbeFile, Store, Record, Clear, Move, Stopped, Idle, NoLaneClear, IInv, TypeOK, Runs, Run
  <2>4. CASE Restart \/ \E v \in Videos : Ensure(v)
    BY <2>4 DEF Restart, Ensure, Idle, NoLaneClear, IInv, TypeOK, Runs
  <2>5. QED
    BY <2>1, <2>2, <2>3, <2>4 DEF Next, Look, Work, Play, Get, Check, Expire, FileChanges, Settle, vars
<1>3. QED
  BY <1>1, <1>2

LEMMA Invariance == Spec => []IInv
<1>1. Init => NoLaneClear
  BY DEF Init, NoLaneClear, Idle, Runs
<1>2. QED
  BY <1>1, InitIInv, NextIInv, PTL DEF Spec

-----------------------------------------------------------------------------
\* The variables keep their types.
THEOREM TypeCorrect == Spec => []TypeOK
<1>1. IInv => TypeOK
  BY DEF IInv
<1>2. QED
  BY <1>1, Invariance, PTL

\* Plays never run two ffprobes of one file at a time.
THEOREM SingleProbe == Spec => []OneBackgroundProbe
<1>1. IInv => OneBackgroundProbe
  BY DEF IInv, RunsInv
<1>2. QED
  BY <1>1, Invariance, PTL

\* The Videos in flight are exactly those a background probe is working on.
THEOREM NoLeakedProbe == Spec => []InflightIsRunning
<1>1. IInv => InflightIsRunning
  BY DEF IInv, RunsInv, Paired, InflightIsRunning, Active
<1>2. QED
  BY <1>1, Invariance, PTL

\* A stored index is served, however plays, Jobs and probes interleave.
THEOREM AnswersAreFresh == Spec => []IndexedIsServed
<1>1. IInv => IndexedIsServed
  BY DEF IInv, PlaysInv
<1>2. QED
  BY <1>1, Invariance, PTL

\* A remembered failure saves the probe of every play that asks after it.
THEOREM FailuresAreRemembered == Spec => []CooldownStopsNewPlays
<1>1. IInv => CooldownStopsNewPlays
  BY DEF IInv, PlaysInv, Held, CooldownStopsNewPlays
<1>2. QED
  BY <1>1, Invariance, PTL
=============================================================================
