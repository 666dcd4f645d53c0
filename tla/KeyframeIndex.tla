---------------------------- MODULE KeyframeIndex ---------------------------
(***************************************************************************)
(* Who builds a Video's Keyframe Index, and what a play is told meanwhile: *)
(* KeyframeService (internal/service/keyframe_service.go) behind           *)
(* HLSService, and the Media Lane's Jobs calling EnsureIndex.              *)
(*                                                                         *)
(* A play reads the index, then the remembered failures, then the probes   *)
(* in flight, each in a step of its own.  The ten minutes of               *)
(* probeFailureCooldown are the time a Video stays in cooling.             *)
(***************************************************************************)
EXTENDS Integers, FiniteSets

CONSTANTS Plays,       \* concurrent requests for a manifest or a segment
          Videos,      \* remux Videos
          Probes,      \* bound: background probes running at a time
          Lane,        \* the Media Lane's Job
          Faults,      \* whether stores, probes and the server may fail at first
          NoVideo

ASSUME KeyframeAssumption ==
    /\ Lane \notin Probes
    /\ NoVideo \notin Videos
    /\ Faults \in BOOLEAN

VARIABLES
    asked,    \* asked[p]: the Video play p asks for, or NoVideo
    step,     \* step[p]: where p stands in LookupOrProbe
    answer,   \* answer[p]: what p was last told
    run,      \* run[s]: the probe s carries out, in the background or for a Job
    inflight, \* s.inflight
    cooling,  \* Videos with a failedAt younger than probeFailureCooldown
    indexed,  \* Videos with a stored index
    good,     \* Videos whose file ffprobe can index now
    faults,   \* whether the store may fail, ffprobe may exceed probeTimeout,
              \* and the server may restart
    sawIndex, \* history: the Video had an index when p asked
    held      \* history: the Video has been cooling ever since p asked

vars == <<asked, step, answer, run, inflight, cooling, indexed, good, faults, sawIndex, held>>
plays == <<asked, step, answer, sawIndex>>

Runs == Probes \cup {Lane}
Run == [video : Videos \cup {NoVideo}, at : {"idle", "probe", "store", "record", "clear"},
        result : {"none", "ok", "unindexable", "notStored"}]
Idle == [video |-> NoVideo, at |-> "idle", result |-> "none"]

TypeOK ==
    /\ asked \in [Plays -> Videos \cup {NoVideo}]
    /\ step \in [Plays -> {"idle", "get", "check", "trigger"}]
    /\ answer \in [Plays -> {"none", "segments", "preparing", "failed", "error"}]
    /\ run \in [Runs -> Run]
    /\ inflight \in SUBSET Videos
    /\ cooling \in SUBSET Videos
    /\ indexed \in SUBSET Videos
    /\ good \in SUBSET Videos
    /\ faults \in BOOLEAN
    /\ sawIndex \in [Plays -> BOOLEAN]
    /\ held \in [Plays -> BOOLEAN]

Init ==
    /\ asked = [p \in Plays |-> NoVideo]
    /\ step = [p \in Plays |-> "idle"]
    /\ answer = [p \in Plays |-> "none"]
    /\ run = [s \in Runs |-> Idle]
    /\ inflight = {}
    /\ cooling = {}
    /\ sawIndex = [p \in Plays |-> FALSE]
    /\ held = [p \in Plays |-> FALSE]
    /\ indexed = {}
    /\ good \in SUBSET Videos
    /\ faults = Faults

-----------------------------------------------------------------------------
(***************************************************************************)
(* A play: HLSService.boundaries of a remux Video, and LookupOrProbe       *)
(***************************************************************************)
Play(p, v) ==
    /\ step[p] = "idle"
    /\ step' = [step EXCEPT ![p] = "get"]
    /\ asked' = [asked EXCEPT ![p] = v]
    /\ answer' = [answer EXCEPT ![p] = "none"]
    /\ sawIndex' = [sawIndex EXCEPT ![p] = v \in indexed]
    /\ held' = [held EXCEPT ![p] = v \in cooling]
    /\ UNCHANGED <<run, inflight, cooling, indexed, good, faults>>

Answer(p, a) ==
    /\ answer' = [answer EXCEPT ![p] = a]
    /\ step' = [step EXCEPT ![p] = "idle"]
    /\ asked' = [asked EXCEPT ![p] = NoVideo]
    /\ held' = [held EXCEPT ![p] = FALSE]
Continue(p, at) ==
    /\ step' = [step EXCEPT ![p] = at]
    /\ UNCHANGED <<asked, answer, held>>

\* Mutant: a remembered failure is looked at before the index.
GetAfterCheck(p) ==
    /\ step[p] = "get"
    /\ \/ asked[p] \in cooling /\ Answer(p, "failed")
       \/ asked[p] \in indexed \ cooling /\ Answer(p, "segments")
       \/ asked[p] \notin indexed \cup cooling /\ Continue(p, "check")
    /\ UNCHANGED <<run, inflight, cooling, indexed, good, faults, sawIndex>>
Get(p) ==
    /\ step[p] = "get"
    /\ \/ asked[p] \in indexed /\ Answer(p, "segments")
       \/ asked[p] \notin indexed /\ Continue(p, "check")
       \/ faults /\ Answer(p, "error")
    /\ UNCHANGED <<run, inflight, cooling, indexed, good, faults, sawIndex>>

\* Mutant: failures are not remembered.
CheckNothing(p) ==
    /\ step[p] = "check"
    /\ Continue(p, "trigger")
    /\ UNCHANGED <<run, inflight, cooling, indexed, good, faults, sawIndex>>
\* failedRecently
Check(p) ==
    /\ step[p] = "check"
    /\ \/ asked[p] \in cooling /\ Answer(p, "failed")
       \/ asked[p] \notin cooling /\ Continue(p, "trigger")
    /\ UNCHANGED <<run, inflight, cooling, indexed, good, faults, sawIndex>>

\* Mutant: every play starts a probe.
TriggerAlways(p) ==
    /\ step[p] = "trigger"
    /\ \E s \in Probes :
          /\ run[s].at = "idle"
          /\ run' = [run EXCEPT ![s] = [video |-> asked[p], at |-> "probe", result |-> "none"]]
    /\ inflight' = inflight \cup {asked[p]}
    /\ Answer(p, "preparing")
    /\ UNCHANGED <<cooling, indexed, good, faults, sawIndex>>
\* triggerProbe: starts a probe unless one is in flight.
Trigger(p) ==
    /\ step[p] = "trigger"
    /\ \/ /\ asked[p] \in inflight
          /\ UNCHANGED <<run, inflight>>
       \/ /\ asked[p] \notin inflight
          /\ inflight' = inflight \cup {asked[p]}
          /\ \E s \in Probes :
                /\ run[s].at = "idle"
                /\ run' = [run EXCEPT ![s] = [video |-> asked[p], at |-> "probe", result |-> "none"]]
    /\ Answer(p, "preparing")
    /\ UNCHANGED <<cooling, indexed, good, faults, sawIndex>>

(***************************************************************************)
(* A probe: indexFile, in the background or by EnsureIndex                 *)
(***************************************************************************)
\* A Job's item: EnsureIndex looks at neither inflight nor failedAt.
Ensure(v) ==
    /\ run[Lane].at = "idle"
    /\ run' = [run EXCEPT ![Lane] = [video |-> v, at |-> "probe", result |-> "none"]]
    /\ UNCHANGED <<plays, inflight, cooling, indexed, good, faults, held>>

Move(s, at, result) == run' = [run EXCEPT ![s].at = at, ![s].result = result]

\* ffprobe and GroupSegments.  A timeout counts against the file.
ProbeFile(s) ==
    /\ run[s].at = "probe"
    /\ \/ run[s].video \in good /\ Move(s, "store", "none")
       \/ (run[s].video \notin good \/ faults) /\ Move(s, "record", "unindexable")
    /\ UNCHANGED <<plays, inflight, cooling, indexed, good, faults, held>>

Store(s) ==
    /\ run[s].at = "store"
    /\ \/ /\ indexed' = indexed \cup {run[s].video}
          /\ Move(s, "record", "ok")
       \/ /\ faults
          /\ UNCHANGED indexed
          /\ Move(s, "record", "notStored")
    /\ UNCHANGED <<plays, inflight, cooling, good, faults, held>>

Stopped(s) == IF s = Lane THEN Idle ELSE [run[s] EXCEPT !.at = "clear"]

\* Mutant: a probe that failed returns before the deferred clean-up.
RecordReturnsEarly(s) ==
    /\ run[s].at = "record"
    /\ cooling' = IF run[s].result = "ok" THEN cooling \ {run[s].video}
                  ELSE IF run[s].result = "unindexable" THEN cooling \cup {run[s].video}
                  ELSE cooling
    /\ held' = [p \in Plays |-> held[p] /\ asked[p] \in cooling']
    /\ run' = [run EXCEPT ![s] = IF run[s].result = "ok" THEN Stopped(s) ELSE Idle]
    /\ UNCHANGED <<plays, inflight, indexed, good, faults>>
\* The outcome is remembered: a file that cannot be indexed for the time of
\* the cooldown, a success forgets an earlier failure.
Record(s) ==
    /\ run[s].at = "record"
    /\ cooling' = IF run[s].result = "ok" THEN cooling \ {run[s].video}
                  ELSE IF run[s].result = "unindexable" THEN cooling \cup {run[s].video}
                  ELSE cooling
    /\ held' = [p \in Plays |-> held[p] /\ asked[p] \in cooling']
    /\ run' = [run EXCEPT ![s] = Stopped(s)]
    /\ UNCHANGED <<plays, inflight, indexed, good, faults>>

\* The background goroutine ends.
Clear(s) ==
    /\ run[s].at = "clear"
    /\ inflight' = inflight \ {run[s].video}
    /\ run' = [run EXCEPT ![s] = Idle]
    /\ UNCHANGED <<plays, cooling, indexed, good, faults, held>>

(***************************************************************************)
(* Time, the disks and a restart                                           *)
(***************************************************************************)
\* probeFailureCooldown has passed since the failure.
Expire(v) ==
    /\ v \in cooling
    /\ cooling' = cooling \ {v}
    /\ held' = [p \in Plays |-> held[p] /\ asked[p] # v]
    /\ UNCHANGED <<plays, run, inflight, indexed, good, faults>>

\* A disk is mounted late or goes, a file is replaced.
FileChanges(v) ==
    /\ good' = (good \ {v}) \cup ({v} \ good)
    /\ UNCHANGED <<plays, run, inflight, cooling, indexed, faults, held>>

\* The store, ffprobe and the server work from now on.
Settle ==
    /\ faults
    /\ faults' = FALSE
    /\ UNCHANGED <<plays, run, inflight, cooling, indexed, good, held>>

\* What is in memory is lost.
Restart ==
    /\ faults
    /\ asked' = [p \in Plays |-> NoVideo]
    /\ step' = [p \in Plays |-> "idle"]
    /\ answer' = [p \in Plays |-> "none"]
    /\ run' = [s \in Runs |-> Idle]
    /\ inflight' = {}
    /\ cooling' = {}
    /\ sawIndex' = [p \in Plays |-> FALSE]
    /\ held' = [p \in Plays |-> FALSE]
    /\ UNCHANGED <<indexed, good, faults>>

Look(p) == Get(p) \/ Check(p) \/ Trigger(p)
Work(s) == ProbeFile(s) \/ Store(s) \/ Record(s) \/ Clear(s)

Next ==
    \/ \E p \in Plays : Look(p) \/ \E v \in Videos : Play(p, v)
    \/ \E s \in Runs : Work(s)
    \/ \E v \in Videos : Ensure(v) \/ Expire(v) \/ FileChanges(v)
    \/ Settle \/ Restart

\* Goroutines run, ffprobe ends within probeTimeout, time passes.
Fairness ==
    /\ \A p \in Plays : WF_vars(Look(p))
    /\ \A s \in Runs : WF_vars(Work(s))
    /\ \A v \in Videos : WF_vars(Expire(v))

Spec == Init /\ [][Next]_vars
FairSpec == Spec /\ Fairness

-----------------------------------------------------------------------------
(***************************************************************************)
(* Properties                                                              *)
(***************************************************************************)
\* Plays never run two ffprobes of one file at a time (the Media Lane's Job
\* may run one of its own beside).
OneBackgroundProbe ==
    \A s, t \in Probes : run[s].at # "idle" /\ run[t].at # "idle" /\ s # t =>
        run[s].video # run[t].video

\* A Video is in flight exactly as long as a probe that will take it out is
\* running: a leaked entry would answer "preparing" for ever.
InflightIsRunning ==
    inflight = {run[s].video : s \in {t \in Probes : run[t].at # "idle"}}

\* A play of a Video that has its index gets it, whatever failure or probe is
\* remembered for that Video (the only other answer is the store's error).
IndexedIsServed ==
    \A p \in Plays : sawIndex[p] => answer[p] \in {"none", "segments", "error"}

\* A play that begins after a failure was remembered does not run ffprobe
\* before the cooldown has passed.  (One that looked at failedAt earlier may.)
CooldownStopsNewPlays ==
    \A p \in Plays : held[p] => step[p] # "trigger"

\* Once faults are over, a Video whose file can be indexed from some time on,
\* and which is played again and again, gets its index.
PlayedAgain(v) == []<>(\E p \in Plays : asked[p] = v /\ step[p] = "get")
EventuallyIndexed ==
    \A v \in Videos : <>~faults /\ <>[](v \in good) /\ PlayedAgain(v) => <>(v \in indexed)
=============================================================================
