---------------------------- MODULE SegmentTable ----------------------------
(***************************************************************************)
(* From a file's keyframes to the bytes of its HLS Segments: the probe,    *)
(* the Segment Boundaries of the Keyframe Index, and the remux of one      *)
(* Segment, which has ffmpeg cut the neighbourhood into one part for each  *)
(* keyframe and picks the parts of the Segment from its list.              *)
(*                                                                         *)
(* Time is in half seconds: maxStartDrift and boundaryTol, which absorb    *)
(* rounding below that, are exact comparisons here.  ffmpeg is external:   *)
(* where its seek lands is open, up to the point it was told.              *)
(***************************************************************************)
EXTENDS Catalogue

CONSTANTS Target,     \* DefaultSegmentTarget
          ShortTail,  \* a tail below it joins the Segment before
          Backoff,    \* seekBackoff
          ReadMargin,
          MaxGap,     \* continuityTol
          Longest,    \* bound: the longest file
          LostRows    \* bound: rows of one list that cannot be read

ASSUME SegmentTableAssumption ==
    /\ {Target, ShortTail, Backoff, ReadMargin, MaxGap, Longest, LostRows} \subseteq Nat \ {0}
    /\ Backoff < Target

VARIABLES
    file, \* its keyframes, those the probe saw a time of, and the duration it read
    made  \* the Segment made from it: its number, its parts, the parts its list lost

segmentVars == <<file, made>>

NotMade == [segment |-> 0, parts |-> {}, lost |-> {}]

\* parseKeyframeProbe: no table without a keyframe's time and a duration.
Probed(f) == f.seen # {} /\ f.total > 0

\* GroupSegments: the keyframes in their order.  One at 0 cuts nothing.
Cut(acc, pts) ==
    IF pts - acc.cur >= Target
    THEN [table |-> Append(acc.table, [start |-> acc.cur, duration |-> pts - acc.cur]), cur |-> pts]
    ELSE acc

Uncut == [table |-> <<>>, cur |-> 0]

Grouped(times) ==
    LET after[t \in 0..Longest] ==
          IF t = 0 THEN Uncut ELSE IF t \in times THEN Cut(after[t - 1], t) ELSE after[t - 1]
    IN  after

CloseTable(acc, total) ==
    IF total - acc.cur >= ShortTail \/ acc.table = <<>>
    THEN Append(acc.table, [start |-> acc.cur, duration |-> total - acc.cur])
    ELSE [acc.table EXCEPT ![Len(acc.table)].duration = total - acc.table[Len(acc.table)].start]

GroupSegments(times, total) == CloseTable(Grouped(times)[Longest], total)

Table == IF Probed(file) THEN GroupSegments(file.seen, file.total) ELSE <<>>

SegmentTableTypeOK ==
    /\ file \in [keys : SUBSET (0..Longest), seen : SUBSET (0..Longest), total : 0..Longest]
    /\ made \in [segment : 0..Len(Table), parts : SUBSET file.keys, lost : SUBSET file.keys]

\* Any keyframes before the file's end.  Content that begins later than the
\* seek backs off is not remuxed right, as selectPartsFromList's comment says.
SegmentTableInit ==
    /\ \E end \in 1..Longest, total \in {0, 1} :
         \E keys \in SUBSET (0..end - 1) :
           /\ \E k \in keys : k <= Backoff
           /\ \E seen \in SUBSET keys : file = [keys |-> keys, seen |-> seen, total |-> total * end]
    /\ made = NotMade

-----------------------------------------------------------------------------
\* ffmpeg: it lands on a keyframe no later than it was told, or on the first;
\* each keyframe from there to the end of reading starts a part.
SeekTo(start) == IF start < Backoff THEN 0 ELSE start - Backoff

Landings(start) ==
    LET reached == {k \in file.keys : k <= SeekTo(start)}
    IN  IF reached = {} THEN {k \in file.keys : \A n \in file.keys : k <= n} ELSE reached

EndOfPart(k, until) ==
    LET later == {n \in file.keys \cup {file.total, until} : n > k}
    IN  CHOOSE n \in later : \A o \in later : n <= o

\* The list counts from 0: its first row does not say where the seek landed.
PartList(landing, until) ==
    {[key |-> k, start |-> IF k = landing THEN 0 ELSE k, end |-> EndOfPart(k, until)] :
        k \in {n \in file.keys : landing <= n /\ n < until}}

\* Mutant: what was read ahead of the start is kept.
InWindowFromSeek(p, start, end) == p.start < end

\* selectPartsFromList: those that start within the Segment.
InWindow(p, start, end) == start <= p.start /\ p.start < end

PartsOf(list, start, end) == {p \in list : InWindow(p, start, end)}

\* The first part is the Segment's own, and no hole is longer than MaxGap.
Acceptable(parts, start) ==
    /\ \E p \in parts : p.start <= start
    /\ \A p \in parts :
         \/ \A first \in parts : p.key <= first.key
         \/ \E prev \in parts : prev.key < p.key /\ p.start - prev.end <= MaxGap

\* Generate: a row of the list that cannot be read is skipped.
Generate(i) ==
    LET start == Table[i].start
        end == start + Table[i].duration
    IN  \E landing \in Landings(start) :
          LET list == PartList(landing, end + ReadMargin)
          IN  \E lost \in SUBSET {p.key : p \in list} :
                LET parts == PartsOf({p \in list : p.key \notin lost}, start, end)
                IN  /\ Cardinality(lost) <= LostRows
                    /\ made' = IF Acceptable(parts, start)
                               THEN [segment |-> i, parts |-> {p.key : p \in parts}, lost |-> lost]
                               ELSE NotMade

MakeSegment ==
    /\ made = NotMade
    /\ \E i \in DOMAIN Table : Generate(i)
    /\ UNCHANGED file

SegmentTableNext == MakeSegment

SegmentTableSpec == SegmentTableInit /\ [][SegmentTableNext]_segmentVars

-----------------------------------------------------------------------------
StartOf(i) == IF i = 1 THEN 0 ELSE Table[i].start
EndOf(i) == IF i = Len(Table) THEN file.total ELSE Table[i + 1].start

\* The Segments a player fetches one after the other are the whole Video: the
\* boundaries meet, and a Segment that is made holds every keyframe's part from
\* its start to the next one's, wherever the seek landed.  Only parts that the
\* list lost may be missing: never the first, and each is no longer than MaxGap
\* unless nothing of the Segment follows it (GroupSegments, selectPartsFromList).
SegmentsTileTheVideo ==
    /\ \A i \in DOMAIN Table :
         Table[i].start = StartOf(i) /\ Table[i].start + Table[i].duration = EndOf(i)
    /\ made # NotMade =>
         LET i == made.segment
             own == {k \in file.keys : (i = 1 \/ StartOf(i) <= k) /\ k < EndOf(i)}
         IN  /\ made.parts \subseteq own
             /\ \E k \in made.parts : \A n \in own : k <= n
             /\ \A k \in own \ made.parts :
                  /\ k \in made.lost
                  /\ \/ \A p \in made.parts : p < k
                     \/ EndOfPart(k, file.total) - k <= MaxGap
=============================================================================
