---------------------------- MODULE MCEnrichment ----------------------------
(* One source whose Cover may change, one Video and one page beside the Job. *)
EXTENDS Enrichment

MCScrapers == <<"javbus">>
=============================================================================
