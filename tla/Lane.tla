-------------------------------- MODULE Lane --------------------------------
(***************************************************************************)
(* What ADR-0014 promises of a Job Lane: one Job at a time, and the next   *)
(* one starts only after the previous one has sent its complete message.   *)
(* Jobs are numbered in the order they start.  JobLane implements this.    *)
(***************************************************************************)
EXTENDS Naturals

CONSTANT MaxJobs    \* bound on the Jobs ever started

VARIABLES started,   \* number of Jobs started so far; the last one is latest
          running,   \* whether the latest Job still holds the lane
          completed  \* Jobs whose complete message has been sent

vars == <<started, running, completed>>

Init ==
    /\ started = 0
    /\ running = FALSE
    /\ completed = {}

StartJob ==
    /\ ~ running
    /\ started < MaxJobs
    /\ started' = started + 1
    /\ running' = TRUE
    /\ UNCHANGED completed

SendComplete ==
    /\ running
    /\ started \notin completed
    /\ completed' = completed \cup {started}
    /\ UNCHANGED <<started, running>>

FreeLane ==
    /\ running
    /\ started \in completed
    /\ running' = FALSE
    /\ UNCHANGED <<started, completed>>

Next == StartJob \/ SendComplete \/ FreeLane

Spec == Init /\ [][Next]_vars
=============================================================================
