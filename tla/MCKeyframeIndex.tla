--------------------------- MODULE MCKeyframeIndex --------------------------
(* The instance of KeyframeIndex for TLC: the bound on background probes    *)
(* is the constant Probes of the specification.                             *)
EXTENDS KeyframeIndex
=============================================================================
