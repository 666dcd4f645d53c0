------------------------ MODULE SegmentCacheProofs -------------------------
(***************************************************************************)
(* Theorems about SegmentCache for any number of requests, Videos and      *)
(* segments, any capacity and segment sizes.                               *)
(***************************************************************************)
EXTENDS SegmentCache, FiniteSetTheorems, TLAPS

\* A request has a segment to ask for exactly when it is not idle.
AskedIffActive ==
    \A r \in Requests :
        /\ phase[r] = "idle" => want[r] = NoSegment
        /\ phase[r] # "idle" => want[r] \in Keys
        /\ phase[r] = "wait" => waitOn[r] \in Requests

\* A segment being cut is on disk from its rename on, not before.
MadeIffPublished ==
    \A r \in Requests :
        /\ phase[r] \in {"account", "done"} => want[r] \in disk
        /\ phase[r] \in {"mkdir", "cut", "publish", "failed"} => want[r] \notin disk

\* The inductive invariant.
IInv ==
    /\ TypeOK
    /\ AskedIffActive
    /\ OneProducer
    /\ WaitersHaveAProducer
    /\ ProducerKeepsItsDirectory
    /\ MadeIffPublished

LEMMA InitIInv == Init => IInv
BY CacheAssumption DEF Init, IInv, TypeOK, AskedIffActive, OneProducer, WaitersHaveAProducer,
       ProducerKeepsItsDirectory, MadeIffPublished, Phases, Producing

\* The access order stays a set of pairs of Videos when a Video is touched.
LEMMA TouchType ==
    ASSUME TypeOK, NEW v \in Videos, NEW T \in SUBSET Videos
    PROVE  TouchIn(v, T) \in SUBSET (Videos \X Videos)
BY DEF TouchIn, TypeOK

\* A Video with a request cutting a segment of it is busy.
LEMMA ProducerIsBusy ==
    ASSUME IInv, NEW r \in Requests, phase[r] \in Producing
    PROVE  want[r] \in Keys /\ want[r][1] \in Videos /\ Busy(want[r][1])
<1>1. want[r] \in Keys
  BY DEF IInv, AskedIffActive, Producing
<1>2. want[r] = <<want[r][1], want[r][2]>> /\ want[r][1] \in Videos /\ want[r][2] \in Segs
  BY <1>1 DEF Keys
<1>3. inflight[want[r]] = r /\ r # NoRequest
  BY CacheAssumption DEF IInv, OneProducer
<1>4. QED
  BY <1>1, <1>2, <1>3 DEF Busy

\* The step of one request through lookup, claim, generate or release: the
\* files of others and the accounting aside, it keeps the invariant.
LEMMA AskIInv ==
    ASSUME IInv, NEW r \in Requests, NEW k \in Keys, Ask(r, k)
    PROVE  IInv'
BY CacheAssumption DEF Ask, IInv, TypeOK, AskedIffActive, OneProducer, WaitersHaveAProducer,
      ProducerKeepsItsDirectory, MadeIffPublished, Phases, Producing, account, files

LEMMA LookupIInv ==
    ASSUME IInv, NEW r \in Requests, Lookup(r)
    PROVE  IInv'
<1> DEFINE v == want[r][1]
<1>1. phase[r] = "lookup" /\ want[r] \in Keys /\ v \in Videos
  BY DEF Lookup, Hit, Join, Claim, IInv, AskedIffActive, Keys
<1>2. older' \in SUBSET (Videos \X Videos)
  BY <1>1, TouchType DEF Lookup, Hit, Join, Claim, Touch, IInv, TypeOK
<1> USE <1>1, <1>2, CacheAssumption DEF IInv, TypeOK, AskedIffActive, OneProducer, WaitersHaveAProducer,
      ProducerKeepsItsDirectory, MadeIffPublished, Phases, Producing, files
<1>3. CASE Hit(r)
  BY <1>3 DEF Hit
<1>4. CASE Join(r)
  BY <1>4 DEF Join
<1>5. CASE Claim(r)
  BY <1>5 DEF Claim
<1>6. QED
  BY <1>3, <1>4, <1>5 DEF Lookup

\* Removing the directories of Videos that are not busy, and not the one of a
\* request in its accounting step, disturbs no producer.
LEMMA RemoveDirsKeepsProducers ==
    ASSUME IInv, NEW gone \in SUBSET Videos, RemoveDirs(gone, disk),
           \A r \in Requests : phase[r] \in Producing => want[r][1] \notin gone
    PROVE  /\ dirs' \in SUBSET Videos
           /\ disk' \in SUBSET disk
           /\ \A r \in Requests : phase[r] \in Producing =>
                 /\ want[r][1] \in dirs => want[r][1] \in dirs'
                 /\ want[r] \in disk => want[r] \in disk'
<1>1. PICK kept \in SUBSET (disk \cap KeysOf(gone)) :
         /\ disk' = (disk \ KeysOf(gone)) \cup kept
         /\ dirs' = (dirs \ gone) \cup {k[1] : k \in kept}
  BY DEF RemoveDirs
<1>2. {k[1] : k \in kept} \in SUBSET Videos
  BY <1>1 DEF KeysOf, Keys
<1>3. QED
  BY <1>1, <1>2 DEF KeysOf, IInv, TypeOK

LEMMA AccountIInv ==
    ASSUME IInv, NEW r \in Requests, Account(r)
    PROVE  IInv'
<1> DEFINE v == want[r][1]
           T == tracked \cup {v}
           size == [sizeBytes EXCEPT ![v] = @ + SegBytes[want[r]]]
           order == TouchIn(v, T)
           gone == Victims(v, T, order, size)
<1>1. phase[r] = "account"
  BY DEF Account
<1>2. want[r] \in Keys /\ v \in Videos /\ Busy(v)
  BY <1>1, ProducerIsBusy DEF Producing
<1>3. gone \in SUBSET T /\ T \in SUBSET Videos
  BY <1>2 DEF Victims, Evictable, IInv, TypeOK
<1>4. \A q \in Requests : phase[q] \in Producing => want[q][1] \notin gone
  BY ProducerIsBusy DEF Victims, Evictable
<1>5. /\ phase' = [phase EXCEPT ![r] = "done"]
      /\ tracked' = T \ gone
      /\ sizeBytes' = [u \in Videos |-> IF u \in gone THEN 0 ELSE size[u]]
      /\ older' = {p \in order : p[1] \notin gone /\ p[2] \notin gone}
      /\ RemoveDirs(gone, disk)
      /\ UNCHANGED <<want, waitOn, inflight>>
  BY DEF Account
<1> HIDE DEF gone, T
<1>6. /\ dirs' \in SUBSET Videos
      /\ disk' \in SUBSET disk
      /\ \A q \in Requests : phase[q] \in Producing =>
            /\ want[q][1] \in dirs => want[q][1] \in dirs'
            /\ want[q] \in disk => want[q] \in disk'
  BY <1>3, <1>4, <1>5, RemoveDirsKeepsProducers
<1>7. older' \in SUBSET (Videos \X Videos)
  BY <1>2, <1>3, <1>5, TouchType DEF IInv
<1>8. sizeBytes' \in [Videos -> Nat]
  BY <1>2, <1>5, CacheAssumption DEF IInv, TypeOK
<1>9. TypeOK'
  BY <1>1, <1>3, <1>5, <1>6, <1>7, <1>8 DEF IInv, TypeOK, Phases, Producing
<1>10. QED
  BY <1>1, <1>5, <1>6, <1>9 DEF IInv, TypeOK, AskedIffActive, OneProducer, WaitersHaveAProducer,
      ProducerKeepsItsDirectory, MadeIffPublished, Producing

LEMMA ReleaseIInv ==
    ASSUME IInv, NEW r \in Requests, Release(r)
    PROVE  IInv'
<1>1. phase[r] \in {"done", "failed"} /\ want[r] \in Keys /\ inflight[want[r]] = r
  BY DEF Release, IInv, AskedIffActive, OneProducer, Producing
<1> DEFINE woken == {w \in Requests : phase[w] = "wait" /\ waitOn[w] = inflight[want[r]]}
<1>2. /\ inflight' = [inflight EXCEPT ![want[r]] = NoRequest]
      /\ phase' = [q \in Requests |->
                        IF q = r THEN IF phase[r] = "done" THEN "serve" ELSE "idle"
                        ELSE IF q \in woken THEN "lookup" ELSE phase[q]]
      /\ waitOn' = [q \in Requests |-> IF q \in woken THEN NoRequest ELSE waitOn[q]]
      /\ want' = [want EXCEPT ![r] = IF phase[r] = "done" THEN @ ELSE NoSegment]
      /\ UNCHANGED <<account, files>>
  BY DEF Release
<1>3. r \notin woken
  BY <1>1
<1>4. \A q \in Requests : phase[q] = "wait" /\ want[q] = want[r] => q \in woken
  BY DEF IInv, WaitersHaveAProducer
<1>5. \A q \in Requests : q # r => want'[q] = want[q]
  BY <1>2 DEF IInv, TypeOK
<1>6. \A q \in Requests : q \in woken => phase[q] = "wait" /\ phase'[q] = "lookup"
  BY <1>1, <1>2
<1>7. \A q \in Requests \ {r} : q \notin woken => phase'[q] = phase[q]
  BY <1>2
<1>8. phase'[r] \in {"serve", "idle"}
  BY <1>2
<1> HIDE DEF woken
<1>9. TypeOK'
  BY <1>1, <1>2 DEF IInv, TypeOK, Phases, Producing, account, files
<1>10. AskedIffActive'
  BY <1>1, <1>2, <1>3, <1>5, <1>6, <1>7 DEF IInv, TypeOK, AskedIffActive
<1>11. OneProducer'
  <2>1. \A q \in Requests : phase'[q] \in Producing => q # r /\ q \notin woken /\ phase'[q] = phase[q]
    BY <1>6, <1>7, <1>8 DEF Producing
  <2>2. \A q \in Requests : phase'[q] \in Producing => inflight'[want'[q]] = q
    BY <2>1, <1>1, <1>2, <1>5 DEF IInv, TypeOK, OneProducer, AskedIffActive, Producing
  <2>3. ASSUME NEW k \in Keys, inflight'[k] # NoRequest
        PROVE  want'[inflight'[k]] = k /\ phase'[inflight'[k]] \in Producing
    <3>1. k # want[r] /\ inflight'[k] = inflight[k]
      BY <2>3, <1>1, <1>2 DEF IInv, TypeOK
    <3>2. inflight[k] \in Requests /\ want[inflight[k]] = k /\ phase[inflight[k]] \in Producing
      BY <2>3, <3>1 DEF IInv, TypeOK, OneProducer
    <3>3. inflight[k] # r /\ inflight[k] \notin woken
      BY <3>1, <3>2, <1>6 DEF Producing
    <3>4. QED
      BY <3>1, <3>2, <3>3, <1>5, <1>7
  <2>4. QED
    BY <2>2, <2>3 DEF OneProducer
<1>12. WaitersHaveAProducer'
  BY <1>1, <1>2, <1>3, <1>4, <1>5, <1>6, <1>7, <1>8 DEF IInv, TypeOK, WaitersHaveAProducer, AskedIffActive
<1>13. ProducerKeepsItsDirectory' /\ MadeIffPublished'
  BY <1>2, <1>5, <1>6, <1>7, <1>8 DEF IInv, ProducerKeepsItsDirectory, MadeIffPublished, files
<1>14. QED
  BY <1>9, <1>10, <1>11, <1>12, <1>13 DEF IInv

LEMMA GenerateIInv ==
    ASSUME IInv, NEW r \in Requests,
           MakeDir(r) \/ Cut(r) \/ Publish(r) \/ Fail(r) \/ Abandon(r) \/ Open(r)
    PROVE  IInv'
<1>1. phase[r] # "idle" /\ want[r] \in Keys /\ want[r][1] \in Videos
  BY DEF MakeDir, Cut, Publish, Fail, Abandon, Open, IInv, AskedIffActive, Keys
<1> USE <1>1, CacheAssumption DEF IInv, TypeOK, AskedIffActive, OneProducer, WaitersHaveAProducer,
      ProducerKeepsItsDirectory, MadeIffPublished, Phases, Producing, account, files
<1>2. CASE MakeDir(r)
  BY <1>2 DEF MakeDir
<1>3. CASE Cut(r)
  BY <1>3 DEF Cut
<1>4. CASE Publish(r)
  BY <1>4 DEF Publish
<1>5. CASE Fail(r)
  BY <1>5 DEF Fail
<1>6. CASE Abandon(r)
  BY <1>6 DEF Abandon
<1>7. CASE Open(r)
  BY <1>7 DEF Open
<1>8. QED
  BY <1>2, <1>3, <1>4, <1>5, <1>6, <1>7

LEMMA SweepIInv ==
    ASSUME IInv, NEW idle \in SUBSET tracked, Sweep(idle)
    PROVE  IInv'
<1> DEFINE gone == {v \in idle : ~ Busy(v)}
<1>1. gone \in SUBSET Videos
  BY DEF IInv, TypeOK
<1>2. \A r \in Requests : phase[r] \in Producing => want[r][1] \notin gone
  BY ProducerIsBusy
<1>3. /\ tracked' = tracked \ gone
      /\ sizeBytes' = [v \in Videos |-> IF v \in gone THEN 0 ELSE sizeBytes[v]]
      /\ older' = {p \in older : p[1] \notin gone /\ p[2] \notin gone}
      /\ RemoveDirs(gone, disk)
      /\ UNCHANGED <<phase, want, waitOn, inflight>>
  BY DEF Sweep
<1> HIDE DEF gone
<1>4. /\ dirs' \in SUBSET Videos
      /\ disk' \in SUBSET disk
      /\ \A q \in Requests : phase[q] \in Producing =>
            /\ want[q][1] \in dirs => want[q][1] \in dirs'
            /\ want[q] \in disk => want[q] \in disk'
  BY <1>1, <1>2, <1>3, RemoveDirsKeepsProducers
<1>5. TypeOK'
  BY <1>1, <1>3, <1>4 DEF IInv, TypeOK
<1>6. QED
  BY <1>3, <1>4, <1>5 DEF IInv, TypeOK, AskedIffActive, OneProducer, WaitersHaveAProducer,
      ProducerKeepsItsDirectory, MadeIffPublished, Producing

LEMMA RestartIInv == ASSUME Restart PROVE IInv'
BY CacheAssumption DEF Restart, IInv, TypeOK, AskedIffActive, OneProducer, WaitersHaveAProducer,
       ProducerKeepsItsDirectory, MadeIffPublished, Phases, Producing

LEMMA NextIInv == IInv /\ [Next]_vars => IInv'
<1> SUFFICES ASSUME IInv, [Next]_vars PROVE IInv'
  OBVIOUS
<1>1. ASSUME NEW r \in Requests, NEW k \in Keys, Ask(r, k) PROVE IInv'
  BY <1>1, AskIInv
<1>2. ASSUME NEW r \in Requests, Lookup(r) PROVE IInv'
  BY <1>2, LookupIInv
<1>3. ASSUME NEW r \in Requests, Produce(r) PROVE IInv'
  BY <1>3, GenerateIInv, AccountIInv, ReleaseIInv DEF Produce
<1>4. ASSUME NEW r \in Requests, Abandon(r) \/ Open(r) PROVE IInv'
  BY <1>4, GenerateIInv
<1>5. ASSUME NEW idle \in SUBSET tracked, Sweep(idle) PROVE IInv'
  BY <1>5, SweepIInv
<1>6. CASE Restart
  BY <1>6, RestartIInv
<1>7. CASE UNCHANGED vars
  BY <1>7 DEF vars, account, files, IInv, TypeOK, AskedIffActive, OneProducer, WaitersHaveAProducer,
      ProducerKeepsItsDirectory, MadeIffPublished
<1>8. QED
  BY <1>1, <1>2, <1>3, <1>4, <1>5, <1>6, <1>7 DEF Next

LEMMA Invariance == Spec => []IInv
BY InitIInv, NextIInv, PTL DEF Spec

\* Every variable keeps its type: the cache never tracks an unknown Video,
\* counts a negative size or names a request that does not exist.
THEOREM TypeCorrect == Spec => []TypeOK
<1>1. IInv => TypeOK
  BY DEF IInv
<1>2. QED
  BY Invariance, <1>1, PTL

\* At most one request cuts a segment at a time, the one EnsureSegment
\* registered in inflight (segment_cache.go:81-102).
THEOREM SingleProducer == Spec => []OneProducer
<1>1. IInv => OneProducer
  BY DEF IInv
<1>2. QED
  BY Invariance, <1>1, PTL

\* A request blocked in EnsureSegment waits on the channel of a producer that
\* has still to close it: no wake-up is lost.
THEOREM NoLostWakeUp == Spec => []WaitersHaveAProducer
<1>1. IInv => WaitersHaveAProducer
  BY DEF IInv
<1>2. QED
  BY Invariance, <1>1, PTL

\* Neither evictLocked nor Sweep removes the directory of a Video while a
\* segment of it is being written.
THEOREM DirectoryKept == Spec => []ProducerKeepsItsDirectory
<1>1. IInv => ProducerKeepsItsDirectory
  BY DEF IInv
<1>2. QED
  BY Invariance, <1>1, PTL
-----------------------------------------------------------------------------
(***************************************************************************)
(* Sizes added up, and the first member of a finite set in an order.       *)
(***************************************************************************)
LEMMA BytesOfOne ==
    ASSUME NEW x, NEW n \in Nat
    PROVE  IsFiniteSet({x} \X (1..n)) /\ Cardinality({x} \X (1..n)) = n
<1>1. IsFiniteSet({x}) /\ Cardinality({x}) = 1
  BY FS_Singleton
<1>2. IsFiniteSet(1..n) /\ Cardinality(1..n) = n
  BY FS_Interval
<1>3. IsFiniteSet({x} \X (1..n)) /\ Cardinality({x} \X (1..n)) = Cardinality({x}) * Cardinality(1..n)
  BY <1>1, <1>2, FS_Product
<1>4. QED
  BY <1>1, <1>2, <1>3

LEMMA BytesAreFinite ==
    ASSUME NEW S, IsFiniteSet(S), NEW size, \A x \in S : size[x] \in Nat
    PROVE  IsFiniteSet(Bytes(size, S)) /\ Total(size, S) \in Nat
<1> DEFINE f == [x \in S |-> {x} \X (1..size[x])]
           T == {f[x] : x \in S}
<1>1. IsFiniteSet(T)
  <2>1. f \in Surjection(S, T)
    BY DEF Surjection
  <2>2. QED
    BY <2>1, FS_Surjection
<1>2. \A B \in T : IsFiniteSet(B)
  <2>1. \A x \in S : IsFiniteSet({x} \X (1..size[x]))
    BY BytesOfOne
  <2>2. \A x \in S : f[x] = {x} \X (1..size[x])
    OBVIOUS
  <2> HIDE DEF f
  <2>3. QED
    BY <2>1, <2>2
<1>3. Bytes(size, S) = UNION T
  <2>1. T = {{x} \X (1..size[x]) : x \in S}
    OBVIOUS
  <2>2. QED
    BY <2>1 DEF Bytes
<1> HIDE DEF T
<1>4. IsFiniteSet(Bytes(size, S))
  BY <1>1, <1>2, <1>3, FS_UNION
<1>5. QED
  BY <1>4, FS_CardinalityType DEF Total

LEMMA TotalOfNone ==
    ASSUME NEW size
    PROVE  Total(size, {}) = 0
<1>1. Bytes(size, {}) = {}
  BY DEF Bytes
<1>2. QED
  BY <1>1, FS_EmptySet DEF Total

LEMMA TotalWithOneMore ==
    ASSUME NEW S, IsFiniteSet(S), NEW y, y \notin S, NEW size,
           \A x \in S \cup {y} : size[x] \in Nat
    PROVE  Total(size, S \cup {y}) = Total(size, S) + size[y]
<1> DEFINE A == Bytes(size, S)
           B == {y} \X (1..size[y])
<1>1. Bytes(size, S \cup {y}) = A \cup B /\ A \cap B = {}
  BY DEF Bytes
<1>2. IsFiniteSet(A) /\ Cardinality(A) \in Nat
  BY BytesAreFinite DEF Total
<1>3. IsFiniteSet(B) /\ Cardinality(B) = size[y]
  BY BytesOfOne
<1> HIDE DEF A, B
<1>4. Cardinality(A \cup B) = Cardinality(A) + Cardinality(B) - Cardinality(A \cap B)
  BY <1>2, <1>3, FS_Union
<1>5. Cardinality(A \cap B) = 0
  BY <1>1, FS_EmptySet
<1>6. Total(size, S \cup {y}) = Cardinality(A \cup B) /\ Total(size, S) = Cardinality(A)
  BY <1>1 DEF Total, A
<1>7. QED
  BY <1>2, <1>3, <1>4, <1>5, <1>6

LEMMA TotalGrows ==
    ASSUME NEW T, IsFiniteSet(T), NEW S \in SUBSET T, NEW small, NEW large,
           \A x \in T : large[x] \in Nat, \A x \in S : small[x] \in Nat /\ small[x] =< large[x]
    PROVE  Total(small, S) =< Total(large, T)
<1>1. Bytes(small, S) \in SUBSET Bytes(large, T)
  <2>1. ASSUME NEW x \in S PROVE {x} \X (1..small[x]) \in SUBSET ({x} \X (1..large[x]))
    <3>1. 1..small[x] \in SUBSET (1..large[x])
      OBVIOUS
    <3>2. QED
      BY <3>1
  <2>2. QED
    BY <2>1 DEF Bytes
<1>2. IsFiniteSet(Bytes(large, T))
  BY BytesAreFinite
<1>3. QED
  BY <1>1, <1>2, FS_Subset DEF Total

LEMMA SameTotal ==
    ASSUME NEW S, NEW a, NEW b, \A x \in S : a[x] = b[x]
    PROVE  Total(a, S) = Total(b, S)
<1>1. Bytes(a, S) = Bytes(b, S)
  BY DEF Bytes
<1>2. QED
  BY <1>1 DEF Total

\* Some member of a finite set has all those before it in another set.
LEMMA FirstOfFinite ==
    ASSUME NEW D, IsFiniteSet(D), NEW T \in SUBSET D, T # {}, NEW order,
           \A x \in D : <<x, x>> \notin order,
           \A x, y, z \in D : <<x, y>> \in order /\ <<y, z>> \in order => <<x, z>> \in order
    PROVE  \E x \in T : \A y \in T : <<y, x>> \notin order
<1> DEFINE before == [x \in D |-> {y \in D : <<y, x>> \in order}]
           F == {before[x] : x \in T}
<1>1. F \subseteq FiniteSubsetsOf(D) /\ F # {}
  <2>1. \A x \in T : before[x] \in SUBSET D
    OBVIOUS
  <2>2. \A x \in T : IsFiniteSet(before[x])
    BY <2>1, FS_Subset
  <2> HIDE DEF before
  <2>3. \A x \in T : before[x] \in FiniteSubsetsOf(D)
    BY <2>1, <2>2 DEF FiniteSubsetsOf
  <2>4. QED
    BY <2>3
<1>2. IsWellFoundedOn(StrictSubsetOrdering(D), FiniteSubsetsOf(D))
  BY FS_StrictSubsetOrderingWellFounded
<1> HIDE DEF F
<1>3. PICK A \in F : \A B \in F : <<B, A>> \notin StrictSubsetOrdering(D)
  BY <1>1, <1>2, WFMin
<1>4. PICK x \in T : A = before[x]
  BY DEF F
<1>5. ASSUME NEW y \in T, <<y, x>> \in order PROVE FALSE
  <2>1. before[y] \in F /\ before[y] \in SUBSET D /\ before[x] \in SUBSET D
    BY DEF F
  <2>2. before[y] \subseteq before[x] /\ y \in before[x] /\ y \notin before[y]
    BY <1>5
  <2> HIDE DEF before
  <2>3. <<before[y], before[x]>> \in StrictSubsetOrdering(D)
    BY <2>1, <2>2 DEF StrictSubsetOrdering
  <2>4. QED
    BY <1>3, <1>4, <2>1, <2>3
<1>6. QED
  BY <1>5

-----------------------------------------------------------------------------
(***************************************************************************)
(* The accounts, and what eviction takes.                                  *)
(***************************************************************************)
\* R puts the members of S one after the other.
Orders(R, S) ==
    /\ R \subseteq S \X S
    /\ \A v \in S : <<v, v>> \notin R
    /\ \A u, v \in S : u # v => <<u, v>> \in R \/ <<v, u>> \in R
    /\ \A u, v, w \in S : <<u, v>> \in R /\ <<v, w>> \in R => <<u, w>> \in R

\* What the accounts rest on: finitely many files, no size for a Video without
\* a state, and an order of access that tells any two tracked Videos apart.
TableInv ==
    /\ IsFiniteSet(tracked)
    /\ IsFiniteSet(disk)
    /\ \A v \in Videos \ tracked : sizeBytes[v] = 0
    /\ Orders(older, tracked)

AccountInv ==
    /\ TableInv
    /\ NeverOvercounts
    /\ RemoveFails \/ AccountMatchesDisk

LEMMA TouchOrders ==
    ASSUME Orders(older, tracked), NEW v
    PROVE  Orders(TouchIn(v, tracked \cup {v}), tracked \cup {v})
<1> DEFINE T == tracked \cup {v}
           R == TouchIn(v, T)
<1>1. \A a, b : <<a, b>> \in R <=> \/ <<a, b>> \in older /\ a # v /\ b # v
                                   \/ a \in T /\ a # v /\ b = v
  BY DEF TouchIn
<1>2. R \subseteq T \X T
  BY DEF TouchIn, Orders
<1>3. \A a \in T : a # v => a \in tracked
  OBVIOUS
<1> HIDE DEF R, T
<1>4. QED
  BY <1>1, <1>2, <1>3 DEF Orders, R, T

LEMMA RemainingOrder ==
    ASSUME NEW R, NEW S, Orders(R, S), NEW gone
    PROVE  Orders({p \in R : p[1] \notin gone /\ p[2] \notin gone}, S \ gone)
BY DEF Orders

LEMMA RemovedFiles ==
    ASSUME NEW gone, RemoveDirs(gone, disk), disk \in SUBSET Keys
    PROVE  /\ disk' \in SUBSET disk
           /\ \A k \in disk : k[1] \notin gone => k \in disk'
           /\ ~ RemoveFails => \A k \in disk' : k[1] \notin gone
BY DEF RemoveDirs, KeysOf

\* A step after which the same files are to be in the accounts.
LEMMA SameAccounts ==
    ASSUME IInv, AccountInv, IsFiniteSet(disk'), UNCHANGED <<tracked, sizeBytes>>,
           Orders(older', tracked'), \A v \in Videos : Accounted(v)' = Accounted(v)
    PROVE  AccountInv'
<1>1. TableInv'
  BY DEF AccountInv, TableInv
<1>2. NeverOvercounts' /\ (RemoveFails \/ AccountMatchesDisk')
  BY DEF AccountInv, NeverOvercounts, AccountMatchesDisk, Total, Bytes
<1>3. QED
  BY <1>1, <1>2 DEF AccountInv

\* A step that leaves the files alone, and who accounts for one.
LEMMA QuietAccounts ==
    ASSUME IInv, AccountInv, UNCHANGED <<disk, tracked, sizeBytes>>, Orders(older', tracked'),
           \A r \in Requests : phase'[r] = "account" <=> phase[r] = "account",
           \A r \in Requests : phase[r] = "account" => want'[r] = want[r]
    PROVE  AccountInv'
<1>1. \A v \in Videos : Accounted(v)' = Accounted(v)
  BY DEF Accounted
<1>2. IsFiniteSet(disk')
  BY DEF AccountInv, TableInv
<1>3. QED
  BY <1>1, <1>2, SameAccounts

LEMMA LookupAccounts ==
    ASSUME IInv, AccountInv, NEW r \in Requests, Lookup(r)
    PROVE  AccountInv'
<1>1. /\ UNCHANGED <<disk, tracked, sizeBytes, want>> /\ Touch(r)
      /\ phase[r] = "lookup"
      /\ \E p \in {"serve", "wait", "mkdir"} : phase' = [phase EXCEPT ![r] = p]
  BY DEF Lookup, Hit, Join, Claim, files
<1>2. Orders(older', tracked')
  <2>1. CASE want[r][1] \in tracked
    <3>1. tracked \cup {want[r][1]} = tracked
      BY <2>1
    <3>2. older' = TouchIn(want[r][1], tracked)
      BY <1>1, <2>1 DEF Touch
    <3>3. QED
      BY <1>1, <3>1, <3>2, TouchOrders DEF AccountInv, TableInv
  <2>2. CASE want[r][1] \notin tracked
    BY <1>1, <2>2 DEF Touch, AccountInv, TableInv
  <2>3. QED
    BY <2>1, <2>2
<1>3. \A q \in Requests : phase'[q] = "account" <=> phase[q] = "account"
  BY <1>1 DEF IInv, TypeOK
<1>4. QED
  BY <1>1, <1>2, <1>3, QuietAccounts

LEMMA GenerateAccounts ==
    ASSUME IInv, AccountInv, NEW r \in Requests,
           \/ \E k \in Keys : Ask(r, k)
           \/ MakeDir(r) \/ Cut(r) \/ Fail(r) \/ Abandon(r) \/ Open(r) \/ Release(r)
    PROVE  AccountInv'
<1>1. UNCHANGED <<disk, tracked, sizeBytes, older>>
  BY DEF Ask, MakeDir, Cut, Fail, Abandon, Open, Release, account, files
<1>2. /\ phase[r] # "account" /\ phase'[r] # "account"
      /\ \A q \in Requests : q # r => want'[q] = want[q]
  BY DEF Ask, MakeDir, Cut, Fail, Abandon, Open, Release, IInv, TypeOK
<1>3. \A q \in Requests : q # r => (phase'[q] = "account" <=> phase[q] = "account")
  BY DEF Ask, MakeDir, Cut, Fail, Abandon, Open, Release, IInv, TypeOK
<1>4. Orders(older', tracked')
  BY <1>1 DEF AccountInv, TableInv
<1>5. QED
  BY <1>1, <1>2, <1>3, <1>4, QuietAccounts

\* The file that is renamed enters no account yet.
LEMMA PublishAccounts ==
    ASSUME IInv, AccountInv, NEW r \in Requests, Publish(r)
    PROVE  AccountInv'
<1>1. /\ phase[r] = "publish" /\ phase' = [phase EXCEPT ![r] = "account"]
      /\ disk' = disk \cup {want[r]}
      /\ UNCHANGED <<want, tracked, sizeBytes, older>>
  BY DEF Publish, account
<1>2. want[r] \notin disk
  BY <1>1 DEF IInv, MadeIffPublished
<1>3. /\ phase'[r] = "account"
      /\ \A q \in Requests : q # r => phase'[q] = phase[q]
  BY <1>1 DEF IInv, TypeOK
<1>4. ASSUME NEW v \in Videos PROVE Accounted(v)' = Accounted(v)
  <2>1. \A k : k \in Accounted(v)' <=> k \in Accounted(v)
    BY <1>1, <1>2, <1>3 DEF Accounted
  <2>2. QED
    BY <2>1 DEF Accounted
<1>5. IsFiniteSet(disk')
  BY <1>1, FS_AddElement DEF AccountInv, TableInv
<1>6. Orders(older', tracked')
  BY <1>1 DEF AccountInv, TableInv
<1>7. QED
  BY <1>1, <1>4, <1>5, <1>6, SameAccounts

\* A Video that lost its account: what is left of its files is not in it.
LEMMA AccountOfRemoved ==
    ASSUME IInv, NEW v \in Videos, IsFiniteSet(disk'), disk' \in SUBSET Keys,
           sizeBytes'[v] = 0, ~ RemoveFails => \A k \in disk' : k[1] # v
    PROVE  /\ sizeBytes'[v] =< Total(SegBytes, Accounted(v)')
           /\ RemoveFails \/ sizeBytes'[v] = Total(SegBytes, Accounted(v)')
<1>1. IsFiniteSet(Accounted(v)') /\ Accounted(v)' \in SUBSET Keys
  <2>1. Accounted(v)' \in SUBSET disk'
    BY DEF Accounted
  <2>2. QED
    BY <2>1, FS_Subset
<1>2. \A k \in Accounted(v)' : SegBytes[k] \in Nat
  BY <1>1, CacheAssumption
<1>3. Total(SegBytes, Accounted(v)') \in Nat
  BY <1>1, <1>2, BytesAreFinite
<1>4. ASSUME ~ RemoveFails PROVE Total(SegBytes, Accounted(v)') = 0
  <2>1. Accounted(v)' = {}
    BY <1>4 DEF Accounted
  <2>2. QED
    BY <2>1, TotalOfNone
<1>5. QED
  BY <1>3, <1>4

\* Videos whose directories are removed lose their account with their state.
LEMMA SweepAccounts ==
    ASSUME IInv, AccountInv, NEW idle \in SUBSET tracked, Sweep(idle)
    PROVE  AccountInv'
<1> DEFINE gone == {v \in idle : ~ Busy(v)}
<1>1. /\ tracked' = tracked \ gone
      /\ sizeBytes' = [v \in Videos |-> IF v \in gone THEN 0 ELSE sizeBytes[v]]
      /\ older' = {p \in older : p[1] \notin gone /\ p[2] \notin gone}
      /\ RemoveDirs(gone, disk)
      /\ UNCHANGED <<phase, want>>
  BY DEF Sweep
<1> HIDE DEF gone
<1>2. /\ disk \in SUBSET Keys /\ disk' \in SUBSET disk
      /\ \A k \in disk : k[1] \notin gone => k \in disk'
      /\ ~ RemoveFails => \A k \in disk' : k[1] \notin gone
  BY <1>1, RemovedFiles DEF IInv, TypeOK
<1>3. TableInv'
  <2>1. IsFiniteSet(tracked') /\ IsFiniteSet(disk')
    BY <1>1, <1>2, FS_Subset DEF AccountInv, TableInv
  <2>2. Orders(older', tracked')
    BY <1>1, RemainingOrder DEF AccountInv, TableInv
  <2>3. QED
    BY <1>1, <2>1, <2>2 DEF AccountInv, TableInv
<1>4. ASSUME NEW v \in Videos
      PROVE  /\ sizeBytes'[v] =< Total(SegBytes, Accounted(v)')
             /\ RemoveFails \/ sizeBytes'[v] = Total(SegBytes, Accounted(v)')
  <2>1. CASE v \in gone
    <3>1. sizeBytes'[v] = 0 /\ (~ RemoveFails => \A k \in disk' : k[1] # v)
      BY <1>1, <1>2, <2>1
    <3>2. IsFiniteSet(disk') /\ disk' \in SUBSET Keys
      BY <1>2, <1>3 DEF TableInv
    <3>3. QED
      BY <3>1, <3>2, AccountOfRemoved
  <2>2. CASE v \notin gone
    <3>1. Accounted(v)' = Accounted(v)
      BY <1>1, <1>2, <2>2 DEF Accounted
    <3>2. sizeBytes'[v] = sizeBytes[v]
      BY <1>1, <2>2
    <3>3. QED
      BY <3>1, <3>2 DEF AccountInv, NeverOvercounts, AccountMatchesDisk
  <2>3. QED
    BY <2>1, <2>2
<1>5. NeverOvercounts' /\ (RemoveFails \/ AccountMatchesDisk')
  BY <1>4 DEF NeverOvercounts, AccountMatchesDisk, Total, Bytes
<1>6. QED
  BY <1>3, <1>5 DEF AccountInv

\* What Account computes before it changes anything: the order and the sizes
\* with the new segment in them, and the Videos that have to go.
TrackedWith(v) == tracked \cup {v}
SizesWith(k) == [sizeBytes EXCEPT ![k[1]] = @ + SegBytes[k]]
GoneFor(k) == Victims(k[1], TrackedWith(k[1]), TouchIn(k[1], TrackedWith(k[1])), SizesWith(k))

LEMMA AccountEffect ==
    ASSUME IInv, AccountInv, NEW r \in Requests, Account(r),
           NEW k, k = want[r], NEW v, v = k[1], NEW gone, gone = GoneFor(k)
    PROVE  /\ phase[r] = "account" /\ phase' = [phase EXCEPT ![r] = "done"]
           /\ k \in Keys /\ k \in disk /\ v \in Videos /\ v \notin gone /\ gone \in SUBSET TrackedWith(v)
           /\ tracked' = TrackedWith(v) \ gone
           /\ sizeBytes' = [u \in Videos |-> IF u \in gone THEN 0 ELSE SizesWith(k)[u]]
           /\ older' = {p \in TouchIn(v, TrackedWith(v)) : p[1] \notin gone /\ p[2] \notin gone}
           /\ RemoveDirs(gone, disk)
           /\ UNCHANGED <<want, inflight>>
<1>1. phase[r] = "account" /\ k \in Keys /\ k \in disk
  BY DEF Account, IInv, AskedIffActive, MadeIffPublished
<1>2. v \in Videos
  BY <1>1 DEF Keys
<1>3. v \notin gone /\ gone \in SUBSET TrackedWith(v)
  BY DEF GoneFor, Victims, Evictable
<1>4. /\ phase' = [phase EXCEPT ![r] = "done"]
      /\ tracked' = (tracked \cup {want[r][1]}) \ GoneFor(want[r])
      /\ sizeBytes' = [u \in Videos |-> IF u \in GoneFor(want[r]) THEN 0 ELSE SizesWith(want[r])[u]]
      /\ older' = {p \in TouchIn(want[r][1], tracked \cup {want[r][1]}) :
                     p[1] \notin GoneFor(want[r]) /\ p[2] \notin GoneFor(want[r])}
      /\ RemoveDirs(GoneFor(want[r]), disk)
      /\ UNCHANGED <<want, inflight>>
  BY Zenon DEF Account, GoneFor, TrackedWith, SizesWith
<1>5. QED
  BY <1>1, <1>2, <1>3, <1>4, Zenon DEF TrackedWith

\* The sizes with the segment in them, one by one and added up.
LEMMA NewSizes ==
    ASSUME IInv, AccountInv, NEW k \in Keys
    PROVE  /\ SizesWith(k) \in [Videos -> Nat]
           /\ SizesWith(k)[k[1]] = sizeBytes[k[1]] + SegBytes[k]
           /\ \A u \in Videos : u # k[1] => SizesWith(k)[u] = sizeBytes[u]
           /\ Total(SizesWith(k), TrackedWith(k[1])) = Total(sizeBytes, tracked) + SegBytes[k]
<1> DEFINE v == k[1]
           size == SizesWith(k)
           rest == tracked \ {v}
<1>1. k[1] \in Videos /\ SegBytes[k] \in Nat /\ sizeBytes \in [Videos -> Nat] /\ tracked \in SUBSET Videos
  BY CacheAssumption DEF Keys, IInv, TypeOK
<1>2. /\ size \in [Videos -> Nat] /\ size[v] = sizeBytes[v] + SegBytes[k]
      /\ \A u \in Videos : u # v => size[u] = sizeBytes[u]
  BY <1>1 DEF SizesWith
<1> HIDE DEF size
<1>3. IsFiniteSet(rest) /\ v \notin rest /\ rest \in SUBSET Videos
  BY <1>1, FS_RemoveElement DEF AccountInv, TableInv
<1>4. Total(size, rest \cup {v}) = Total(size, rest) + size[v]
  BY <1>1, <1>2, <1>3, TotalWithOneMore
<1>5. Total(size, rest) = Total(sizeBytes, rest)
  BY <1>2, <1>3, SameTotal
<1>6. Total(sizeBytes, tracked) = Total(sizeBytes, rest) + sizeBytes[v]
  <2>1. CASE v \in tracked
    <3>1. tracked = rest \cup {v}
      BY <2>1
    <3>2. Total(sizeBytes, rest \cup {v}) = Total(sizeBytes, rest) + sizeBytes[v]
      BY <1>1, <1>3, TotalWithOneMore
    <3>3. QED
      BY <3>1, <3>2
  <2>2. CASE v \notin tracked
    <3>1. tracked = rest /\ sizeBytes[v] = 0
      BY <1>1, <2>2 DEF AccountInv, TableInv
    <3>2. Total(sizeBytes, rest) \in Nat
      BY <1>1, <1>3, BytesAreFinite
    <3>3. QED
      BY <3>1, <3>2
  <2>3. QED
    BY <2>1, <2>2
<1>7. Total(sizeBytes, rest) \in Nat /\ sizeBytes[v] \in Nat
  BY <1>1, <1>3, BytesAreFinite
<1>8. TrackedWith(k[1]) = rest \cup {v}
  BY DEF TrackedWith
<1>9. Total(size, TrackedWith(k[1])) = Total(sizeBytes, tracked) + SegBytes[k]
  <2> HIDE DEF rest, v
  <2>1. Total(size, TrackedWith(k[1])) = Total(size, rest) + size[v]
    BY <1>4, <1>8
  <2>2. size[v] = sizeBytes[v] + SegBytes[k]
    BY <1>2
  <2>3. QED
    BY <1>1, <1>5, <1>6, <1>7, <2>1, <2>2
<1>10. QED
  BY <1>2, <1>9 DEF size

LEMMA AccountingTable ==
    ASSUME IInv, AccountInv, NEW r \in Requests, Account(r)
    PROVE  TableInv'
<1> DEFINE k == want[r]
           v == k[1]
           gone == GoneFor(k)
<1>1. /\ k \in Keys /\ v \in Videos /\ v \notin gone
      /\ tracked' = TrackedWith(v) \ gone
      /\ sizeBytes' = [u \in Videos |-> IF u \in gone THEN 0 ELSE SizesWith(k)[u]]
      /\ older' = {p \in TouchIn(v, TrackedWith(v)) : p[1] \notin gone /\ p[2] \notin gone}
      /\ RemoveDirs(gone, disk)
  BY AccountEffect
<1>2. \A u \in Videos : u # v => SizesWith(k)[u] = sizeBytes[u]
  BY <1>1, NewSizes
<1> HIDE DEF gone
<1>3. IsFiniteSet(tracked') /\ IsFiniteSet(disk')
  <2>1. IsFiniteSet(TrackedWith(v))
    BY FS_AddElement DEF TrackedWith, AccountInv, TableInv
  <2>2. disk' \in SUBSET disk
    BY <1>1, RemovedFiles DEF IInv, TypeOK
  <2>3. QED
    BY <1>1, <2>1, <2>2, FS_Subset DEF AccountInv, TableInv
<1>4. Orders(older', tracked')
  BY <1>1, TouchOrders, RemainingOrder DEF TrackedWith, AccountInv, TableInv
<1>5. \A u \in Videos \ tracked' : sizeBytes'[u] = 0
  BY <1>1, <1>2 DEF TrackedWith, AccountInv, TableInv
<1>6. QED
  BY <1>3, <1>4, <1>5 DEF TableInv

LEMMA AccountAccounts ==
    ASSUME IInv, AccountInv, NEW r \in Requests, Account(r)
    PROVE  AccountInv'
<1> DEFINE k == want[r]
           v == k[1]
           gone == GoneFor(k)
<1>1. /\ phase[r] = "account" /\ phase' = [phase EXCEPT ![r] = "done"]
      /\ k \in Keys /\ k \in disk /\ v \in Videos /\ v \notin gone
      /\ sizeBytes' = [u \in Videos |-> IF u \in gone THEN 0 ELSE SizesWith(k)[u]]
      /\ RemoveDirs(gone, disk)
      /\ UNCHANGED <<want>>
  BY AccountEffect
<1>2. /\ SizesWith(k)[v] = sizeBytes[v] + SegBytes[k]
      /\ \A u \in Videos : u # v => SizesWith(k)[u] = sizeBytes[u]
  BY <1>1, NewSizes
<1> HIDE DEF gone
<1>3. /\ disk \in SUBSET Keys /\ disk' \in SUBSET disk /\ IsFiniteSet(disk')
      /\ \A f \in disk : f[1] \notin gone => f \in disk'
      /\ ~ RemoveFails => \A f \in disk' : f[1] \notin gone
  BY <1>1, AccountingTable, RemovedFiles DEF IInv, TypeOK, TableInv
<1>4. /\ phase'[r] = "done"
      /\ \A q \in Requests : q # r => phase'[q] = phase[q]
      /\ \A q \in Requests : q # r /\ phase[q] = "account" => want[q] # k
  BY <1>1 DEF IInv, TypeOK, OneProducer, Producing
<1>5. ASSUME NEW u \in Videos
      PROVE  /\ sizeBytes'[u] =< Total(SegBytes, Accounted(u)')
             /\ RemoveFails \/ sizeBytes'[u] = Total(SegBytes, Accounted(u)')
  <2>1. CASE u \in gone
    <3>1. sizeBytes'[u] = 0 /\ (~ RemoveFails => \A f \in disk' : f[1] # u)
      BY <1>1, <1>3, <2>1
    <3>2. QED
      BY <1>3, <3>1, AccountOfRemoved
  <2>2. CASE u \notin gone /\ u # v
    <3>1. Accounted(u)' = Accounted(u)
      BY <1>1, <1>3, <1>4, <2>2 DEF Accounted
    <3>2. sizeBytes'[u] = sizeBytes[u]
      BY <1>1, <1>2, <2>2
    <3>3. QED
      BY <3>1, <3>2 DEF AccountInv, NeverOvercounts, AccountMatchesDisk
  <2>3. CASE u = v
    <3>1. Accounted(u)' = Accounted(u) \cup {k} /\ k \notin Accounted(u)
      BY <1>1, <1>3, <1>4, <2>3 DEF Accounted
    <3>2. IsFiniteSet(Accounted(u)) /\ Accounted(u) \in SUBSET Keys
      <4>1. Accounted(u) \in SUBSET disk
        BY DEF Accounted
      <4>2. QED
        BY <1>3, <4>1, FS_Subset DEF AccountInv, TableInv
    <3>3. \A f \in Accounted(u) \cup {k} : SegBytes[f] \in Nat
      BY <1>1, <3>2, CacheAssumption
    <3>4. Total(SegBytes, Accounted(u) \cup {k}) = Total(SegBytes, Accounted(u)) + SegBytes[k]
      BY <3>1, <3>2, <3>3, TotalWithOneMore
    <3>5. Total(SegBytes, Accounted(u)) \in Nat
      BY <3>2, <3>3, BytesAreFinite
    <3>6. sizeBytes'[u] = sizeBytes[u] + SegBytes[k] /\ sizeBytes[u] \in Nat /\ SegBytes[k] \in Nat
      BY <1>1, <1>2, <2>3, CacheAssumption DEF IInv, TypeOK
    <3>7. /\ sizeBytes[u] =< Total(SegBytes, Accounted(u))
          /\ RemoveFails \/ sizeBytes[u] = Total(SegBytes, Accounted(u))
      BY DEF AccountInv, NeverOvercounts, AccountMatchesDisk
    <3>8. Total(SegBytes, Accounted(u)') = Total(SegBytes, Accounted(u)) + SegBytes[k]
      BY <3>1, <3>4
    <3> HIDE DEF k
    <3>9. QED
      BY <3>5, <3>6, <3>7, <3>8
  <2>4. QED
    BY <2>1, <2>2, <2>3
<1>6. NeverOvercounts' /\ (RemoveFails \/ AccountMatchesDisk')
  BY <1>5 DEF NeverOvercounts, AccountMatchesDisk, Total, Bytes
<1>7. QED
  BY <1>6, AccountingTable DEF AccountInv

LEMMA InitAccounts == Init => AccountInv
<1> SUFFICES ASSUME Init PROVE AccountInv
  OBVIOUS
<1>1. TableInv
  BY FS_EmptySet DEF Init, TableInv, Orders
<1>2. ASSUME NEW v \in Videos PROVE sizeBytes[v] = Total(SegBytes, Accounted(v))
  <2>1. Accounted(v) = {} /\ sizeBytes[v] = 0
    BY DEF Init, Accounted
  <2>2. QED
    BY <2>1, TotalOfNone
<1>3. \A v \in Videos : sizeBytes[v] =< Total(SegBytes, Accounted(v))
  BY <1>2 DEF Init
<1>4. QED
  BY <1>1, <1>2, <1>3 DEF AccountInv, NeverOvercounts, AccountMatchesDisk

LEMMA RestartAccounts == ASSUME Restart PROVE AccountInv'
<1>1. TableInv'
  BY FS_EmptySet DEF Restart, TableInv, Orders
<1>2. ASSUME NEW v \in Videos
      PROVE  sizeBytes'[v] = 0 /\ Total(SegBytes, Accounted(v)') = 0
  <2>1. Accounted(v)' = {} /\ sizeBytes'[v] = 0
    BY DEF Restart, Accounted
  <2>2. QED
    BY <2>1, TotalOfNone
<1>3. NeverOvercounts' /\ AccountMatchesDisk'
  BY <1>2 DEF NeverOvercounts, AccountMatchesDisk, Total, Bytes
<1>4. QED
  BY <1>1, <1>3 DEF AccountInv

LEMMA NextAccounts == IInv /\ AccountInv /\ [Next]_vars => AccountInv'
<1> SUFFICES ASSUME IInv, AccountInv, [Next]_vars PROVE AccountInv'
  OBVIOUS
<1>1. ASSUME NEW r \in Requests, NEW k \in Keys, Ask(r, k) PROVE AccountInv'
  BY <1>1, GenerateAccounts
<1>2. ASSUME NEW r \in Requests, Lookup(r) PROVE AccountInv'
  BY <1>2, LookupAccounts
<1>3. ASSUME NEW r \in Requests, Produce(r) PROVE AccountInv'
  BY <1>3, GenerateAccounts, PublishAccounts, AccountAccounts DEF Produce
<1>4. ASSUME NEW r \in Requests, Abandon(r) \/ Open(r) PROVE AccountInv'
  BY <1>4, GenerateAccounts
<1>5. ASSUME NEW idle \in SUBSET tracked, Sweep(idle) PROVE AccountInv'
  BY <1>5, SweepAccounts
<1>6. CASE Restart
  BY <1>6, RestartAccounts
<1>7. CASE UNCHANGED vars
  <2>1. /\ UNCHANGED <<disk, tracked, sizeBytes, older, phase, want>>
    BY <1>7 DEF vars
  <2>2. Orders(older', tracked')
    BY <2>1 DEF AccountInv, TableInv
  <2>3. QED
    BY <2>1, <2>2, QuietAccounts
<1>8. QED
  BY <1>1, <1>2, <1>3, <1>4, <1>5, <1>6, <1>7 DEF Next

LEMMA AccountInvariance == Spec => []AccountInv
BY InitAccounts, NextAccounts, Invariance, PTL DEF Spec

\* As long as directories are removed whole, the size in memory of every Video
\* is what its files take on disk, but for a segment renamed and not yet
\* accounted (segment_cache.go:41).
THEOREM AccountsMatchTheDisk ==
    ASSUME ~ RemoveFails
    PROVE  Spec => []AccountMatchesDisk
<1>1. AccountInv => AccountMatchesDisk
  BY DEF AccountInv
<1>2. QED
  BY AccountInvariance, <1>1, PTL

\* Whatever os.RemoveAll leaves behind, no file is counted twice.
THEOREM NothingCountedTwice == Spec => []NeverOvercounts
<1>1. AccountInv => NeverOvercounts
  BY DEF AccountInv
<1>2. QED
  BY AccountInvariance, <1>1, PTL

\* The one step that goes from accounting to done is Account.
LEMMA OnlyAccountAccounts ==
    ASSUME IInv, [Next]_vars, NEW r \in Requests, phase[r] = "account", phase'[r] = "done"
    PROVE  Account(r)
<1>1. ASSUME NEW q \in Requests, NEW k \in Keys, Ask(q, k) PROVE FALSE
  BY <1>1 DEF Ask, IInv, TypeOK
<1>2. ASSUME NEW q \in Requests, Lookup(q) PROVE FALSE
  BY <1>2 DEF Lookup, Hit, Join, Claim, IInv, TypeOK
<1>3. ASSUME NEW q \in Requests, MakeDir(q) \/ Cut(q) \/ Publish(q) \/ Fail(q) \/ Release(q) PROVE FALSE
  BY <1>3 DEF MakeDir, Cut, Publish, Fail, Release, IInv, TypeOK
<1>4. ASSUME NEW q \in Requests, Abandon(q) \/ Open(q) PROVE FALSE
  BY <1>4 DEF Abandon, Open, IInv, TypeOK
<1>5. ASSUME NEW q \in Requests, Account(q) PROVE q = r
  BY <1>5 DEF Account, IInv, TypeOK
<1>6. ~ Restart /\ ~ UNCHANGED vars /\ \A idle \in SUBSET tracked : ~ Sweep(idle)
  BY DEF Restart, vars, Sweep, IInv, TypeOK
<1>7. QED
  BY <1>1, <1>2, <1>3, <1>4, <1>5, <1>6 DEF Next, Produce

\* With no limit nothing is a victim; else a victim is one that would be left
\* over the capacity with all evictable Videos older than it gone.
LEMMA WhoGoes ==
    ASSUME NEW k, NEW u
    PROVE  u \in GoneFor(k) <=>
              /\ MaxBytes > 0 /\ u \in Evictable(k[1], TrackedWith(k[1]))
              /\ Total(SizesWith(k), TrackedWith(k[1]) \
                         {x \in Evictable(k[1], TrackedWith(k[1])) : <<x, u>> \in TouchIn(k[1], TrackedWith(k[1]))})
                   > MaxBytes
BY CacheAssumption DEF GoneFor, Victims

LEMMA EvictionTakesOldest ==
    ASSUME IInv, AccountInv, NEW r \in Requests, Account(r), NEW u \in tracked \ tracked'
    PROVE  /\ Total(sizeBytes, tracked) + SegBytes[want[r]] > MaxBytes
           /\ \A w \in tracked' \ {want[r][1]} : Busy(w) \/ <<u, w>> \in older
<1> DEFINE k == want[r]
           v == k[1]
           T == TrackedWith(v)
           size == SizesWith(k)
           order == TouchIn(v, T)
           Older(x) == {y \in Evictable(v, T) : <<y, x>> \in order}
           gone == GoneFor(k)
<1>1. k \in Keys /\ v \in Videos /\ tracked' = T \ gone
  BY AccountEffect
<1>2. u \in gone /\ u \in tracked
  BY <1>1 DEF TrackedWith
<1>3. /\ size \in [Videos -> Nat] /\ IsFiniteSet(T) /\ T \in SUBSET Videos
      /\ Total(size, T) = Total(sizeBytes, tracked) + SegBytes[k]
      /\ Orders(order, T) /\ Orders(older, tracked)
  <2>1. IsFiniteSet(T) /\ Orders(older, tracked)
    BY FS_AddElement DEF TrackedWith, AccountInv, TableInv
  <2>2. Orders(order, T)
    BY <2>1, TouchOrders DEF TrackedWith
  <2>3. T \in SUBSET Videos
    BY <1>1 DEF TrackedWith, IInv, TypeOK
  <2>4. size \in [Videos -> Nat] /\ Total(size, T) = Total(sizeBytes, tracked) + SegBytes[k]
    BY <1>1, NewSizes
  <2>5. QED
    BY <2>1, <2>2, <2>3, <2>4
<1>4. \A x \in T : x \in gone <=> MaxBytes > 0 /\ x \in Evictable(v, T) /\ Total(size, T \ Older(x)) > MaxBytes
  BY WhoGoes
<1>5. MaxBytes \in Int
  BY CacheAssumption
<1>6. \A A \in SUBSET T : \A B \in SUBSET A :
         Total(size, B) \in Nat /\ Total(size, A) \in Nat /\ Total(size, B) =< Total(size, A)
  <2> TAKE A \in SUBSET T
  <2> TAKE B \in SUBSET A
  <2> HIDE DEF size, T
  <2>1. IsFiniteSet(A) /\ IsFiniteSet(B)
    BY <1>3, FS_Subset
  <2>2. \A x \in A : size[x] \in Nat
    BY <1>3
  <2>3. QED
    BY <2>1, <2>2, BytesAreFinite, TotalGrows
<1>7. \A a, b : a # v /\ b # v => (<<a, b>> \in order <=> <<a, b>> \in older)
  BY DEF TouchIn
<1> HIDE DEF k, v, T, size, order, gone
<1>8. Total(size, T) > MaxBytes
  <2>1. u \in T /\ Total(size, T \ Older(u)) > MaxBytes
    BY <1>2, <1>4 DEF T, TrackedWith
  <2>2. T \ Older(u) \in SUBSET T
    OBVIOUS
  <2>3. Total(size, T \ Older(u)) =< Total(size, T) /\ Total(size, T \ Older(u)) \in Nat /\ Total(size, T) \in Nat
    BY <1>6, <2>2
  <2> HIDE DEF Older
  <2>4. QED
    BY <1>5, <2>1, <2>3
<1>9. ASSUME NEW w \in tracked' \ {v}, ~ Busy(w)
      PROVE  <<u, w>> \in older
  <2>1. u \in T /\ w \in T /\ w \notin gone /\ w \in tracked
    BY <1>1, <1>2, <1>9 DEF T, TrackedWith
  <2>2. u \in Evictable(v, T) /\ w \in Evictable(v, T) /\ u # v /\ u # w /\ MaxBytes > 0
    BY <1>2, <1>4, <1>9, <2>1 DEF Evictable
  <2>3. Total(size, T \ Older(u)) > MaxBytes /\ ~ (Total(size, T \ Older(w)) > MaxBytes)
    BY <1>2, <1>4, <2>1, <2>2
  <2>4. SUFFICES ASSUME <<w, u>> \in older PROVE FALSE
    BY <1>2, <1>3, <2>1, <2>2 DEF Orders
  <2>5. <<w, u>> \in order
    BY <1>7, <1>9, <2>2, <2>4
  <2>6. \A y \in Older(w) : y \in Older(u)
    BY <1>3, <2>1, <2>5 DEF Orders, Evictable
  <2>7. T \ Older(w) \in SUBSET T /\ T \ Older(u) \in SUBSET (T \ Older(w))
    BY <2>6
  <2>8. /\ Total(size, T \ Older(u)) =< Total(size, T \ Older(w))
        /\ Total(size, T \ Older(u)) \in Nat /\ Total(size, T \ Older(w)) \in Nat
    BY <1>6, <2>7
  <2> HIDE DEF Older
  <2>9. QED
    BY <1>5, <2>3, <2>8
<1>10. Total(sizeBytes, tracked) + SegBytes[k] > MaxBytes
  BY <1>3, <1>8
<1>11. QED
  BY <1>9, <1>10 DEF k, v
LEMMA CapacityAfterAccounting ==
    ASSUME IInv, AccountInv, NEW r \in Requests, Account(r), MaxBytes > 0
    PROVE  \/ Total(sizeBytes', tracked') =< MaxBytes
           \/ \A w \in tracked' : w = want[r][1] \/ Busy(w)
<1> DEFINE k == want[r]
           v == k[1]
           T == TrackedWith(v)
           size == SizesWith(k)
           order == TouchIn(v, T)
           Older(x) == {y \in Evictable(v, T) : <<y, x>> \in order}
           gone == GoneFor(k)
           left == {w \in T \ gone : w # v /\ ~ Busy(w)}
<1>1. /\ k \in Keys /\ v \in Videos /\ tracked' = T \ gone
      /\ sizeBytes' = [u \in Videos |-> IF u \in gone THEN 0 ELSE size[u]]
  BY AccountEffect
<1>2. /\ size \in [Videos -> Nat] /\ IsFiniteSet(T) /\ T \in SUBSET Videos /\ Orders(order, T)
  <2>1. IsFiniteSet(T)
    BY FS_AddElement DEF TrackedWith, AccountInv, TableInv
  <2>2. Orders(order, T)
    BY TouchOrders DEF TrackedWith, AccountInv, TableInv
  <2>3. T \in SUBSET Videos
    BY <1>1 DEF TrackedWith, IInv, TypeOK
  <2>4. size \in [Videos -> Nat]
    BY <1>1, NewSizes
  <2>5. QED
    BY <2>1, <2>2, <2>3, <2>4
<1>3. \A x \in T : x \in gone <=> MaxBytes > 0 /\ x \in Evictable(v, T) /\ Total(size, T \ Older(x)) > MaxBytes
  BY WhoGoes
<1>4. SUFFICES ASSUME ~ \A w \in tracked' : w = want[r][1] \/ Busy(w)
               PROVE  Total(sizeBytes', tracked') =< MaxBytes
  OBVIOUS
<1> HIDE DEF k, v, T, size, order, gone
<1>5. left # {} /\ left \in SUBSET T
  BY <1>1, <1>4 DEF k, v
<1>6. PICK w \in left : \A y \in left : <<y, w>> \notin order
  <2> HIDE DEF left
  <2>1. /\ \A x \in T : <<x, x>> \notin order
        /\ \A x, y, z \in T : <<x, y>> \in order /\ <<y, z>> \in order => <<x, z>> \in order
    BY <1>2 DEF Orders
  <2>2. QED
    BY <1>2, <1>5, <2>1, FirstOfFinite
<1>7. w \in T /\ w \notin gone /\ w \in Evictable(v, T)
  BY DEF Evictable
<1>8. ~ (Total(size, T \ Older(w)) > MaxBytes)
  BY <1>3, <1>4, <1>7
<1>9. T \ gone \in SUBSET (T \ Older(w))
  BY <1>6 DEF Evictable
<1>10. \A u \in T \ gone : sizeBytes'[u] = size[u]
  BY <1>1, <1>2
<1>11. IsFiniteSet(T \ Older(w)) /\ \A x \in T \ Older(w) : size[x] \in Nat
  <2>1. T \ Older(w) \in SUBSET T
    OBVIOUS
  <2> HIDE DEF Older
  <2>2. QED
    BY <1>2, <2>1, FS_Subset
<1> HIDE DEF Older
<1>12. Total(size, T \ gone) =< Total(size, T \ Older(w))
  <2>1. \A x \in T \ gone : size[x] \in Nat /\ size[x] =< size[x]
    BY <1>9, <1>11
  <2>2. QED
    BY <1>9, <1>11, <2>1, TotalGrows
<1>13. /\ Total(size, T \ Older(w)) \in Nat
       /\ Total(size, T \ gone) \in Nat
  <2>1. IsFiniteSet(T \ gone)
    BY <1>9, <1>11, FS_Subset
  <2>2. QED
    BY <1>9, <1>11, <2>1, BytesAreFinite
<1>14. Total(sizeBytes', T \ gone) = Total(size, T \ gone)
  BY <1>10, SameTotal
<1>15. MaxBytes \in Int
  BY CacheAssumption
<1>16. QED
  BY <1>1, <1>8, <1>12, <1>13, <1>14, <1>15

\* Once a segment is accounted the cache is within its capacity, or what is
\* left of it may not be evicted: for any sizes and any capacity (evictLocked).
THEOREM EvictionRestoresCapacity == Spec => CapacityRestored
<1>1. IInv /\ AccountInv /\ [Next]_vars =>
         [\A r \in Requests :
            (phase[r] = "account" /\ phase'[r] = "done" /\ MaxBytes > 0) =>
               \/ Total(sizeBytes', tracked') =< MaxBytes
               \/ \A v \in tracked' : v = want[r][1] \/ Busy(v)]_vars
  BY OnlyAccountAccounts, CapacityAfterAccounting
<1>2. QED
  BY Invariance, AccountInvariance, <1>1, PTL DEF Spec, CapacityRestored

\* Eviction is in the order of last access: what it takes was accessed before
\* everything evictable that it leaves, and it takes nothing from a cache the
\* new segment fits in (evictLocked).
THEOREM EvictionIsLeastRecent == Spec => EvictsLeastRecent
<1>1. IInv /\ AccountInv /\ [Next]_vars =>
         [\A r \in Requests :
            (phase[r] = "account" /\ phase'[r] = "done") =>
               \A u \in tracked \ tracked' :
                  /\ Total(sizeBytes, tracked) + SegBytes[want[r]] > MaxBytes
                  /\ \A v \in tracked' \ {want[r][1]} : Busy(v) \/ <<u, v>> \in older]_vars
  BY OnlyAccountAccounts, EvictionTakesOldest
<1>2. QED
  BY Invariance, AccountInvariance, <1>1, PTL DEF Spec, EvictsLeastRecent

-----------------------------------------------------------------------------
(***************************************************************************)
(* The cache implements SegmentStore.                                      *)
(***************************************************************************)
Making == {k \in Keys : inflight[k] # NoRequest}

\* Dropping directories of Videos that are not busy is a Drop of the store.
LEMMA RemovalDrops ==
    ASSUME IInv, NEW gone \in SUBSET Videos, RemoveDirs(gone, disk),
           \A v \in gone : ~ Busy(v),
           UNCHANGED <<inflight, want>>,
           \A r \in Requests : phase[r] = "serve" <=> phase'[r] = "serve"
    PROVE  [Store!Next]_(Store!vars)
<1> DEFINE K == disk \ disk'
<1>1. disk' \in SUBSET disk /\ K \in SUBSET disk /\ K \in SUBSET KeysOf(gone)
  BY DEF RemoveDirs
<1>2. \A k \in K : ~ Store!InTheMaking(k[1])
  <2>1. SUFFICES ASSUME NEW k \in K PROVE ~ Store!InTheMaking(k[1])
    OBVIOUS
  <2>2. k[1] \in gone
    BY <1>1 DEF KeysOf
  <2>3. QED
    BY <2>2 DEF Store!InTheMaking, Busy
<1>3. Store!Drop(K)
  BY <1>1, <1>2 DEF Store!Drop
<1>4. QED
  BY <1>1, <1>3 DEF Store!Next

LEMMA StepImplements ==
    ASSUME IInv, Next
    PROVE  [Store!Next]_(Store!vars)
<1> USE CacheAssumption DEF Store!vars
<1>1. ASSUME NEW r \in Requests, NEW k \in Keys, Ask(r, k) PROVE Store!Next
  <2>1. Store!Ask(r, k)
    BY <1>1 DEF Ask, Store!Ask, files, IInv, TypeOK, AskedIffActive
  <2>2. QED
    BY <2>1 DEF Store!Next, Store!Keys, Keys
<1>2. ASSUME NEW r \in Requests, Hit(r) PROVE Store!Next
  <2>1. Store!AnswerStored(r)
    BY <1>2 DEF Hit, Store!AnswerStored, files, IInv, TypeOK
  <2>2. QED
    BY <2>1 DEF Store!Next
<1>3. ASSUME NEW r \in Requests, Join(r) PROVE UNCHANGED Store!vars
  BY <1>3 DEF Join, files, IInv, TypeOK
<1>4. ASSUME NEW r \in Requests, Claim(r) PROVE Store!Next
  <2>1. want[r] \in Keys
    BY <1>4 DEF Claim, IInv, AskedIffActive
  <2>2. Store!Begin(r)
    BY <1>4, <2>1 DEF Claim, Store!Begin, Store!Keys, Keys, files, IInv, TypeOK
  <2>3. QED
    BY <2>2 DEF Store!Next
<1>5. ASSUME NEW r \in Requests, MakeDir(r) \/ Cut(r) \/ Fail(r) PROVE UNCHANGED Store!vars
  BY <1>5 DEF MakeDir, Cut, Fail, files, IInv, TypeOK
<1>6. ASSUME NEW r \in Requests, Publish(r) PROVE Store!Next
  <2>1. want[r] \in Making \ disk
    BY <1>6 DEF Publish, Making, IInv, OneProducer, MadeIffPublished, AskedIffActive, Producing
  <2>2. Store!Store(r)
    BY <1>6, <2>1 DEF Publish, Making, Store!Store, IInv, TypeOK
  <2>3. QED
    BY <2>2 DEF Store!Next
<1>7. ASSUME NEW r \in Requests, Account(r) PROVE [Store!Next]_(Store!vars)
  <2>0. want[r] \in Keys
    BY <1>7 DEF Account, IInv, AskedIffActive
  <2>1. PICK gone \in SUBSET Videos :
           /\ RemoveDirs(gone, disk)
           /\ \A v \in gone : ~ Busy(v)
    <3> DEFINE v == want[r][1]
               T == tracked \cup {v}
               size == [sizeBytes EXCEPT ![v] = @ + SegBytes[want[r]]]
               gone == Victims(v, T, TouchIn(v, T), size)
    <3>1. gone \in SUBSET Videos /\ \A u \in gone : ~ Busy(u)
      BY <2>0 DEF Victims, Evictable, IInv, TypeOK, Keys
    <3>2. RemoveDirs(gone, disk)
      BY <1>7 DEF Account
    <3>3. QED
      BY <3>1, <3>2
  <2>2. /\ UNCHANGED <<inflight, want>>
        /\ \A q \in Requests : phase[q] = "serve" <=> phase'[q] = "serve"
    BY <1>7 DEF Account, IInv, TypeOK
  <2>3. QED
    BY <2>1, <2>2, RemovalDrops
<1>8. ASSUME NEW r \in Requests, Release(r) PROVE Store!Next
  <2>1. want[r] \in Keys /\ want[r] \in Making
    BY <1>8 DEF Release, Making, IInv, OneProducer, AskedIffActive, Producing
  <2>2. CASE phase[r] = "done"
    <3>1. Store!AnswerMade(r)
      BY <1>8, <2>1, <2>2 DEF Release, Making, Store!AnswerMade, IInv, TypeOK, MadeIffPublished, files
    <3>2. QED
      BY <3>1 DEF Store!Next
  <2>3. CASE phase[r] = "failed"
    <3>1. Store!GiveUpMaking(r)
      BY <1>8, <2>1, <2>3 DEF Release, Making, Store!GiveUpMaking, IInv, TypeOK, MadeIffPublished, files
    <3>2. QED
      BY <3>1 DEF Store!Next
  <2>4. QED
    BY <1>8, <2>2, <2>3 DEF Release
<1>9. ASSUME NEW r \in Requests, Abandon(r) \/ Open(r) PROVE Store!Next
  <2>1. Store!Leave(r)
    BY <1>9 DEF Abandon, Open, Store!Leave, IInv, TypeOK, AskedIffActive, files
  <2>2. QED
    BY <2>1 DEF Store!Next
<1>10. ASSUME NEW idle \in SUBSET tracked, Sweep(idle) PROVE [Store!Next]_(Store!vars)
  <2>1. PICK gone \in SUBSET Videos :
           /\ RemoveDirs(gone, disk)
           /\ \A v \in gone : ~ Busy(v)
    BY <1>10 DEF Sweep, IInv, TypeOK
  <2>2. QED
    BY <1>10, <2>1, RemovalDrops DEF Sweep
<1>11. CASE Restart
  <2>1. Store!Restart
    BY <1>11 DEF Restart, Store!Restart
  <2>2. QED
    BY <2>1 DEF Store!Next
<1>12. QED
  BY <1>1, <1>2, <1>3, <1>4, <1>5, <1>6, <1>7, <1>8, <1>9, <1>10, <1>11 DEF Next, Lookup, Produce

\* The cache implements the store that makes each segment once, answers only
\* with stored segments and drops no Video it is cutting a segment for.
THEOREM Implementation == Spec => ImplementsStore
<1>1. Init => Store!Init
  BY CacheAssumption DEF Init, Store!Init
<1>2. IInv /\ [Next]_vars => [Store!Next]_(Store!vars)
  <2>1. ASSUME UNCHANGED vars PROVE UNCHANGED Store!vars
    BY <2>1 DEF vars, files, Store!vars
  <2>2. QED
    BY <2>1, StepImplements
<1>3. QED
  BY <1>1, <1>2, Invariance, PTL DEF Spec, ImplementsStore, Store!Spec
=============================================================================
