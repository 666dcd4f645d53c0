--------------------------- MODULE MCSegmentCache ---------------------------
(* Instances of SegmentCache for TLC.                                      *)
EXTENDS SegmentCache, TLC

\* Every segment has size 1, so that MaxBytes counts segments.
MCSegBytes == [k \in Keys |-> 1]

MCSymmetry == Permutations(Requests) \cup Permutations(Videos)
=============================================================================
