-------------------------------- MODULE MCHub -------------------------------
(* Instances of Hub for TLC: every connection is the one user's.  Calls,    *)
(* connections and buffers are bounded by constants of the specification.   *)
EXTENDS Hub

CONSTANTS u1, c1, c2

MCOwner == [c \in Clients |-> u1]
=============================================================================
