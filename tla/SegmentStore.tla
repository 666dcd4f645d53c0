---------------------------- MODULE SegmentStore ----------------------------
(***************************************************************************)
(* What the HLS segment cache promises, without locks, channels, files or  *)
(* accounting: a segment is made by at most one request at a time and only *)
(* while it is not stored, a request is answered only with a segment that  *)
(* is stored at that moment, and a Video with a segment in the making is   *)
(* never dropped.  SegmentCache implements this specification.             *)
(***************************************************************************)
EXTENDS FiniteSets

CONSTANTS Requests,   \* concurrent HTTP requests for segments
          Videos,     \* remux Videos
          Segs,       \* segment indexes of one Video
          NoSegment   \* what an idle request asks for

Keys == Videos \X Segs

VARIABLES stored,  \* segments ready to be served
          making,  \* segments being cut
          asked,   \* asked[r]: the segment request r wants, or NoSegment
          answered \* requests that were told their segment is ready

vars == <<stored, making, asked, answered>>

TypeOK ==
    /\ stored \subseteq Keys
    /\ making \subseteq Keys
    /\ asked \in [Requests -> Keys \cup {NoSegment}]
    /\ answered \subseteq Requests

Init ==
    /\ stored = {}
    /\ making = {}
    /\ asked = [r \in Requests |-> NoSegment]
    /\ answered = {}

InTheMaking(v) == \E s \in Segs : <<v, s>> \in making

Ask(r, k) ==
    /\ asked[r] = NoSegment
    /\ asked' = [asked EXCEPT ![r] = k]
    /\ UNCHANGED <<stored, making, answered>>

\* A request that finds its segment stored is answered at once.
AnswerStored(r) ==
    /\ asked[r] \in stored
    /\ r \notin answered
    /\ answered' = answered \cup {r}
    /\ UNCHANGED <<stored, making, asked>>

Begin(r) ==
    /\ asked[r] \in Keys \ (stored \cup making)
    /\ making' = making \cup {asked[r]}
    /\ UNCHANGED <<stored, asked, answered>>

Store(r) ==
    /\ asked[r] \in making \ stored
    /\ stored' = stored \cup {asked[r]}
    /\ UNCHANGED <<making, asked, answered>>

\* The request that made its segment is answered with it.
AnswerMade(r) ==
    /\ asked[r] \in making \cap stored
    /\ r \notin answered
    /\ making' = making \ {asked[r]}
    /\ answered' = answered \cup {r}
    /\ UNCHANGED <<stored, asked>>

\* Cutting the segment failed: nothing was stored.
GiveUpMaking(r) ==
    /\ asked[r] \in making \ stored
    /\ making' = making \ {asked[r]}
    /\ asked' = [asked EXCEPT ![r] = NoSegment]
    /\ UNCHANGED <<stored, answered>>

\* The request ends: it used its answer, or its client went away.
Leave(r) ==
    /\ asked[r] # NoSegment
    /\ asked' = [asked EXCEPT ![r] = NoSegment]
    /\ answered' = answered \ {r}
    /\ UNCHANGED <<stored, making>>

\* Segments are dropped, of Videos nothing is being made for.
Drop(K) ==
    /\ \A k \in K : ~ InTheMaking(k[1])
    /\ stored' = stored \ K
    /\ UNCHANGED <<making, asked, answered>>

Restart ==
    /\ stored' = {}
    /\ making' = {}
    /\ asked' = [r \in Requests |-> NoSegment]
    /\ answered' = {}

Next ==
    \/ \E r \in Requests :
          \/ \E k \in Keys : Ask(r, k)
          \/ AnswerStored(r) \/ Begin(r) \/ Store(r) \/ AnswerMade(r)
          \/ GiveUpMaking(r) \/ Leave(r)
    \/ \E K \in SUBSET stored : Drop(K)
    \/ Restart

Spec == Init /\ [][Next]_vars
=============================================================================
