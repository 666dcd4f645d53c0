---------------------------- MODULE SegmentCache ----------------------------
(***************************************************************************)
(* The on-demand HLS segment cache: internal/streaming/segment_cache.go,   *)
(* with the caller that serves the path it returns (HLSService.Segment and *)
(* the HLS handler).                                                       *)
(*                                                                         *)
(* Every critical section of c.mu is one action; between two of them any   *)
(* other request, the sweeper or a restart may run.  lastAccess is kept as *)
(* the order it induces (older), since the code only compares times: LRU   *)
(* takes the oldest Video, and the Videos idle for too long are always     *)
(* those oldest in that order.                                             *)
(***************************************************************************)
EXTENDS Integers, FiniteSets

CONSTANTS Requests,    \* concurrent calls of EnsureSegment
          Videos,      \* remux Videos
          Segs,        \* segment indexes of one Video
          SegBytes,    \* SegBytes[k]: the size of segment k once cut
          MaxBytes,    \* the capacity; <= 0 means no limit
          IdleElapses, \* whether a Video may stay untouched for idleTimeout
          RemoveFails, \* whether os.RemoveAll may fail half way
          NoRequest,
          NoSegment

Keys == Videos \X Segs

ASSUME CacheAssumption ==
    /\ SegBytes \in [Keys -> Nat]
    /\ MaxBytes \in Int
    /\ IdleElapses \in BOOLEAN
    /\ RemoveFails \in BOOLEAN
    /\ NoRequest \notin Requests
    /\ NoSegment \notin Keys

VARIABLES
    phase,     \* phase[r]: where request r stands in EnsureSegment
    want,      \* want[r]: the segment r asks for
    waitOn,    \* waitOn[r]: the request whose channel r blocks on
    inflight,  \* inflight[k]: the request cutting k, or NoRequest
    tracked,   \* Videos with a videoCacheState
    sizeBytes, \* sizeBytes[v]: the accounted size of v (0 when untracked)
    older,     \* <<u, v>>: u was accessed before v; both tracked
    dirs,      \* Videos whose cache directory exists
    disk       \* segment files on disk

vars == <<phase, want, waitOn, inflight, tracked, sizeBytes, older, dirs, disk>>
account == <<tracked, sizeBytes, older>>
files == <<dirs, disk>>

\* lookup: about to take c.mu; the next six: it claimed the segment and has
\* not released it; serve: EnsureSegment returned the path, not yet opened.
Producing == {"mkdir", "cut", "publish", "account", "done", "failed"}
Phases == {"idle", "lookup", "wait", "serve"} \cup Producing

TypeOK ==
    /\ phase \in [Requests -> Phases]
    /\ want \in [Requests -> Keys \cup {NoSegment}]
    /\ waitOn \in [Requests -> Requests \cup {NoRequest}]
    /\ inflight \in [Keys -> Requests \cup {NoRequest}]
    /\ tracked \in SUBSET Videos
    /\ sizeBytes \in [Videos -> Nat]
    /\ older \in SUBSET (Videos \X Videos)
    /\ dirs \in SUBSET Videos
    /\ disk \in SUBSET Keys

Init ==
    /\ phase = [r \in Requests |-> "idle"]
    /\ want = [r \in Requests |-> NoSegment]
    /\ waitOn = [r \in Requests |-> NoRequest]
    /\ inflight = [k \in Keys |-> NoRequest]
    /\ tracked = {}
    /\ sizeBytes = [v \in Videos |-> 0]
    /\ older = {}
    /\ dirs = {}
    /\ disk = {}

-----------------------------------------------------------------------------
KeysOf(V) == {k \in Keys : k[1] \in V}

\* Mutant: the prefix test of hasInflightLocked never matches.
BusyNever(v) == FALSE
Busy(v) == \E s \in Segs : inflight[<<v, s>>] # NoRequest

\* The access order after touching v, given the Videos tracked then.
TouchIn(v, T) ==
    {p \in older : v \notin {p[1], p[2]}} \cup {<<u, v>> : u \in T \ {v}}

\* EnsureSegment touches a Video that has a state, before anything else.
Touch(r) ==
    LET v == want[r][1]
    IN  older' = IF v \in tracked THEN TouchIn(v, tracked) ELSE older

\* The sizes of the members of V added up: their bytes, numbered and counted.
Bytes(size, V) == UNION {{v} \X (1..size[v]) : v \in V}
Total(size, V) == Cardinality(Bytes(size, V))

\* The Videos evictLocked removes when current was just accounted: the ones
\* it may remove (neither current nor busy), oldest first, until the total
\* fits.  order and size are the state the loop starts from.
Evictable(current, T) == {v \in T : v # current /\ ~ Busy(v)}

\* Mutant: the comparison of lastAccess is turned round.
VictimsNewest(current, T, order, size) ==
    IF MaxBytes <= 0
    THEN {}
    ELSE {v \in Evictable(current, T) :
            Total(size, T \ {u \in Evictable(current, T) : <<v, u>> \in order}) > MaxBytes}
\* Mutant: the loop stops one Video short of fitting.
VictimsOneShort(current, T, order, size) ==
    IF MaxBytes <= 0
    THEN {}
    ELSE {v \in Evictable(current, T) :
            Total(size, T \ ({v} \cup {u \in Evictable(current, T) : <<u, v>> \in order})) > MaxBytes}
Victims(current, T, order, size) ==
    IF MaxBytes <= 0
    THEN {}
    ELSE {v \in Evictable(current, T) :
            Total(size, T \ {u \in Evictable(current, T) : <<u, v>> \in order}) > MaxBytes}

\* os.RemoveAll of the directories of V, with onDisk the files before it.  A
\* failure is only logged: it leaves some files, and their directory, behind.
RemoveDirs(V, onDisk) ==
    \E kept \in IF RemoveFails THEN SUBSET (onDisk \cap KeysOf(V)) ELSE {{}} :
        /\ disk' = (onDisk \ KeysOf(V)) \cup kept
        /\ dirs' = (dirs \ V) \cup {k[1] : k \in kept}

-----------------------------------------------------------------------------
(***************************************************************************)
(* EnsureSegment                                                           *)
(***************************************************************************)
Ask(r, k) ==
    /\ phase[r] = "idle"
    /\ phase' = [phase EXCEPT ![r] = "lookup"]
    /\ want' = [want EXCEPT ![r] = k]
    /\ UNCHANGED <<waitOn, inflight, account, files>>

Hit(r) ==
    /\ phase[r] = "lookup"
    /\ want[r] \in disk
    /\ Touch(r)
    /\ phase' = [phase EXCEPT ![r] = "serve"]
    /\ UNCHANGED <<want, waitOn, inflight, tracked, sizeBytes, files>>

\* Another request is cutting this segment: wait on its channel.
Join(r) ==
    /\ phase[r] = "lookup"
    /\ want[r] \notin disk
    /\ inflight[want[r]] # NoRequest
    /\ Touch(r)
    /\ phase' = [phase EXCEPT ![r] = "wait"]
    /\ waitOn' = [waitOn EXCEPT ![r] = inflight[want[r]]]
    /\ UNCHANGED <<want, inflight, tracked, sizeBytes, files>>

\* Mutant: a request claims the segment without looking at inflight.
ClaimUnchecked(r) ==
    /\ phase[r] = "lookup"
    /\ want[r] \notin disk
    /\ Touch(r)
    /\ phase' = [phase EXCEPT ![r] = "mkdir"]
    /\ inflight' = [inflight EXCEPT ![want[r]] = r]
    /\ UNCHANGED <<want, waitOn, tracked, sizeBytes, files>>
Claim(r) ==
    /\ phase[r] = "lookup"
    /\ want[r] \notin disk
    /\ inflight[want[r]] = NoRequest
    /\ Touch(r)
    /\ phase' = [phase EXCEPT ![r] = "mkdir"]
    /\ inflight' = [inflight EXCEPT ![want[r]] = r]
    /\ UNCHANGED <<want, waitOn, tracked, sizeBytes, files>>

\* The client of a waiting request goes away.
Abandon(r) ==
    /\ phase[r] = "wait"
    /\ phase' = [phase EXCEPT ![r] = "idle"]
    /\ waitOn' = [waitOn EXCEPT ![r] = NoRequest]
    /\ want' = [want EXCEPT ![r] = NoSegment]
    /\ UNCHANGED <<inflight, account, files>>

(***************************************************************************)
(* generate, by the request that claimed the segment                       *)
(***************************************************************************)
MakeDir(r) ==
    /\ phase[r] = "mkdir"
    /\ phase' = [phase EXCEPT ![r] = "cut"]
    /\ dirs' = dirs \cup {want[r][1]}
    /\ UNCHANGED <<want, waitOn, inflight, account, disk>>

\* ffmpeg wrote the temporary file.
Cut(r) ==
    /\ phase[r] = "cut"
    /\ phase' = [phase EXCEPT ![r] = "publish"]
    /\ UNCHANGED <<want, waitOn, inflight, account, files>>

\* os.Rename gives the file its name; it needs the directory.
Publish(r) ==
    /\ phase[r] = "publish"
    /\ want[r][1] \in dirs
    /\ phase' = [phase EXCEPT ![r] = "account"]
    /\ disk' = disk \cup {want[r]}
    /\ UNCHANGED <<want, waitOn, inflight, account, dirs>>

\* MkdirAll, ffmpeg (its error, the timeout or the client's cancellation),
\* Stat or Rename failed.
Fail(r) ==
    /\ phase[r] \in {"mkdir", "cut", "publish"}
    /\ phase' = [phase EXCEPT ![r] = "failed"]
    /\ UNCHANGED <<want, waitOn, inflight, account, files>>

\* Mutant: what is evicted is subtracted from the account of the Video that
\* took its place.
AccountSubtracts(r) ==
    LET v == want[r][1]
        T == tracked \cup {v}
        size == [sizeBytes EXCEPT ![v] = @ + SegBytes[want[r]]]
        order == TouchIn(v, T)
        gone == Victims(v, T, order, size)
    IN  /\ phase[r] = "account"
        /\ phase' = [phase EXCEPT ![r] = "done"]
        /\ tracked' = T \ gone
        /\ sizeBytes' = [size EXCEPT ![v] = @ - Total(size, gone)]
        /\ older' = {p \in order : p[1] \notin gone /\ p[2] \notin gone}
        /\ RemoveDirs(gone, disk)
        /\ UNCHANGED <<want, waitOn, inflight>>
\* Adds the segment to the Video's account and evicts, in one critical section.
Account(r) ==
    LET v == want[r][1]
        T == tracked \cup {v}
        size == [sizeBytes EXCEPT ![v] = @ + SegBytes[want[r]]]
        order == TouchIn(v, T)
        gone == Victims(v, T, order, size)
    IN  /\ phase[r] = "account"
        /\ phase' = [phase EXCEPT ![r] = "done"]
        /\ tracked' = T \ gone
        /\ sizeBytes' = [u \in Videos |-> IF u \in gone THEN 0 ELSE size[u]]
        /\ older' = {p \in order : p[1] \notin gone /\ p[2] \notin gone}
        /\ RemoveDirs(gone, disk)
        /\ UNCHANGED <<want, waitOn, inflight>>

\* Mutant: the channel is deleted on failure without being closed.
ReleaseWithoutClose(r) ==
    /\ phase[r] \in {"done", "failed"}
    /\ inflight' = [inflight EXCEPT ![want[r]] = NoRequest]
    /\ phase' = [phase EXCEPT ![r] = IF phase[r] = "done" THEN "serve" ELSE "idle"]
    /\ want' = [want EXCEPT ![r] = IF phase[r] = "done" THEN @ ELSE NoSegment]
    /\ UNCHANGED <<waitOn, account, files>>
\* Mutant: a failed request returns before it gives up its claim.
ReleaseDoneOnly(r) ==
    LET woken == {w \in Requests : phase[w] = "wait" /\ waitOn[w] = inflight[want[r]]}
    IN  IF phase[r] = "done"
        THEN /\ inflight' = [inflight EXCEPT ![want[r]] = NoRequest]
             /\ phase' = [q \in Requests |->
                             IF q = r THEN "serve" ELSE IF q \in woken THEN "lookup" ELSE phase[q]]
             /\ waitOn' = [q \in Requests |-> IF q \in woken THEN NoRequest ELSE waitOn[q]]
             /\ UNCHANGED <<want, account, files>>
        ELSE /\ phase[r] = "failed"
             /\ phase' = [phase EXCEPT ![r] = "idle"]
             /\ want' = [want EXCEPT ![r] = NoSegment]
             /\ UNCHANGED <<waitOn, inflight, account, files>>
\* Closes the channel in the map, which wakes every request blocked on it,
\* and deletes it; then EnsureSegment returns the path or the error.
Release(r) ==
    LET woken == {w \in Requests : phase[w] = "wait" /\ waitOn[w] = inflight[want[r]]}
    IN  /\ phase[r] \in {"done", "failed"}
        /\ inflight' = [inflight EXCEPT ![want[r]] = NoRequest]
        /\ phase' = [q \in Requests |->
                        IF q = r THEN IF phase[r] = "done" THEN "serve" ELSE "idle"
                        ELSE IF q \in woken THEN "lookup" ELSE phase[q]]
        /\ waitOn' = [q \in Requests |-> IF q \in woken THEN NoRequest ELSE waitOn[q]]
        /\ want' = [want EXCEPT ![r] = IF phase[r] = "done" THEN @ ELSE NoSegment]
        /\ UNCHANGED <<account, files>>

\* The handler opens the path, found or not; eviction does not stop a stream
\* whose file is already open.
Open(r) ==
    /\ phase[r] = "serve"
    /\ phase' = [phase EXCEPT ![r] = "idle"]
    /\ want' = [want EXCEPT ![r] = NoSegment]
    /\ UNCHANGED <<waitOn, inflight, account, files>>

(***************************************************************************)
(* The sweeper and a restart                                               *)
(***************************************************************************)
\* idle: the Videos not accessed for idleTimeout.
Sweep(idle) ==
    LET gone == {v \in idle : ~ Busy(v)}
    IN  /\ IdleElapses
        /\ \A v \in idle : \A u \in tracked : <<u, v>> \in older => u \in idle
        /\ gone # {}
        /\ tracked' = tracked \ gone
        /\ sizeBytes' = [v \in Videos |-> IF v \in gone THEN 0 ELSE sizeBytes[v]]
        /\ older' = {p \in older : p[1] \notin gone /\ p[2] \notin gone}
        /\ RemoveDirs(gone, disk)
        /\ UNCHANGED <<phase, want, waitOn, inflight>>

\* A crash or stop, then NewSegmentCache: it empties the cache directory.
Restart ==
    /\ phase' = [r \in Requests |-> "idle"]
    /\ want' = [r \in Requests |-> NoSegment]
    /\ waitOn' = [r \in Requests |-> NoRequest]
    /\ inflight' = [k \in Keys |-> NoRequest]
    /\ tracked' = {}
    /\ sizeBytes' = [v \in Videos |-> 0]
    /\ older' = {}
    /\ dirs' = {}
    /\ disk' = {}

Produce(r) ==
    MakeDir(r) \/ Cut(r) \/ Publish(r) \/ Fail(r) \/ Account(r) \/ Release(r)
Lookup(r) == Hit(r) \/ Join(r) \/ Claim(r)

Next ==
    \/ \E r \in Requests :
          \/ \E k \in Keys : Ask(r, k)
          \/ Lookup(r) \/ Produce(r) \/ Abandon(r) \/ Open(r)
    \/ \E idle \in SUBSET tracked : Sweep(idle)
    \/ Restart

\* Fairness: a goroutine that can run does, ffmpeg ends within its timeout,
\* and c.mu is never held across a blocking call.  Clients, the sweeper and
\* restarts owe nothing.
Fairness == \A r \in Requests : WF_vars(Produce(r)) /\ WF_vars(Lookup(r))

Spec == Init /\ [][Next]_vars
FairSpec == Spec /\ Fairness

-----------------------------------------------------------------------------
(***************************************************************************)
(* Properties                                                              *)
(***************************************************************************)
\* A segment has one producer at a time, the one inflight names: two ffmpeg
\* runs would write the same temporary file.
OneProducer ==
    /\ \A r \in Requests : phase[r] \in Producing => inflight[want[r]] = r
    /\ \A k \in Keys : inflight[k] # NoRequest =>
          /\ want[inflight[k]] = k
          /\ phase[inflight[k]] \in Producing

\* Whoever blocks on a channel blocks on that of a producer which still cuts
\* the same segment, and so will close it: no wake-up is lost.
WaitersHaveAProducer ==
    \A r \in Requests : phase[r] = "wait" => inflight[want[r]] = waitOn[r]

\* Neither eviction nor the sweeper removes the directory a request is
\* writing a segment into.
ProducerKeepsItsDirectory ==
    \A r \in Requests : phase[r] \in {"cut", "publish", "account", "done"} => want[r][1] \in dirs

\* Files of v that are in its account: all but the one renamed and not yet
\* accounted.
Accounted(v) ==
    {k \in disk : k[1] = v /\ ~ \E r \in Requests : phase[r] = "account" /\ want[r] = k}

\* The in-memory size of each tracked Video is what its files take on disk
\* (segment_cache.go:41), as long as RemoveAll succeeds; a Video that is not
\* tracked then has no file the account should have counted.
AccountMatchesDisk ==
    \A v \in Videos : sizeBytes[v] = Total(SegBytes, Accounted(v))

\* When RemoveAll may fail the account can only fall short of the disk: a
\* file is never counted twice.
NeverOvercounts ==
    \A v \in Videos : sizeBytes[v] =< Total(SegBytes, Accounted(v))

\* Accounting a segment leaves the cache within its capacity, unless all that
\* is left is the Video being played and Videos a segment is being cut for.
CapacityRestored ==
    [][ \A r \in Requests :
          (phase[r] = "account" /\ phase'[r] = "done" /\ MaxBytes > 0) =>
             \/ Total(sizeBytes', tracked') =< MaxBytes
             \/ \A v \in tracked' : v = want[r][1] \/ Busy(v) ]_vars

\* Eviction takes the least recently used Videos: one that survives it was
\* accessed after every one that does not, unless a segment of it is being
\* cut; and a cache within its capacity loses none.
EvictsLeastRecent ==
    [][ \A r \in Requests :
          (phase[r] = "account" /\ phase'[r] = "done") =>
             \A u \in tracked \ tracked' :
                /\ Total(sizeBytes, tracked) + SegBytes[want[r]] > MaxBytes
                /\ \A v \in tracked' \ {want[r][1]} : Busy(v) \/ <<u, v>> \in older ]_vars

\* No request waits forever for another one's work, whatever happens to its
\* client, to ffmpeg and to the disk.
EveryWaitEnds == \A r \in Requests : phase[r] = "wait" ~> phase[r] # "wait"

\* The cache implements the abstract store.
Store == INSTANCE SegmentStore WITH
            stored <- disk,
            making <- {k \in Keys : inflight[k] # NoRequest},
            asked <- want,
            answered <- {r \in Requests : phase[r] = "serve"}
ImplementsStore == Store!Spec

\* HLSService.Segment "returns the path of a ready HLS Segment file"
\* (hls_service.go:63): the path still names a file when the handler opens it.
ReturnedPathIsReady == \A r \in Requests : phase[r] = "serve" => want[r] \in disk
=============================================================================
